---- MODULE Spec2Model ----
(***************************************************************************)
(* Model of src/src/voting_system.py: the SQLite-backed ballot store, the  *)
(* eligibility registry, the vote casting protocol and its integrity       *)
(* binder.                                                                 *)
(*                                                                         *)
(* Strings are sequences of one-character strings, so that the f-string    *)
(* concatenation of _sign and Python's lexicographic string comparison of  *)
(* timestamps are computed as the code computes them.                      *)
(*                                                                         *)
(* The database is the three tables of init_db.  Every API function opens  *)
(* its own connection, so a statement sees committed rows only.  A write   *)
(* takes SQLite's database-wide write lock at its INSERT/UPDATE and gives  *)
(* it back at commit; a writer that finds the lock taken waits (the busy   *)
(* handler of sqlite3.connect), which the model renders as the action not  *)
(* being enabled.  The expiry of that wait (OperationalError "database is  *)
(* locked") belongs to the storage layer's configuration and is not        *)
(* modelled.                                                               *)
(***************************************************************************)
EXTENDS Integers, Sequences, FiniteSets, TLC

\* ---------------------------------------------------------------- bounds
NumProcs == 2      \* concurrent callers of cast_vote
MaxTime == 3       \* the clock runs over the ticks 0..MaxTime
MaxBallots == 1    \* create_ballot calls that store a ballot
MaxTallyBallots == 2 \* the same, under SpecTally
LastSetupTick == 0 \* under Spec, ballots and registrations are made by then

Procs == 1..NumProcs
Times == 0..MaxTime

\* --------------------------------------------------------------- strings
Chars == {"+", ".", "0", "1", "2", "3", "4", "5", "6", "7", "8", "9", ":",
          "X", "Y", "Z", "a", "b", "v", "w"}

\* Unicode code point of a character: Python compares str by code points.
CodePoint(c) ==
    CASE c = "+" -> 43 [] c = "." -> 46
      [] c = "0" -> 48 [] c = "1" -> 49 [] c = "2" -> 50 [] c = "3" -> 51
      [] c = "4" -> 52 [] c = "5" -> 53 [] c = "6" -> 54 [] c = "7" -> 55
      [] c = "8" -> 56 [] c = "9" -> 57 [] c = ":" -> 58
      [] c = "X" -> 88 [] c = "Y" -> 89 [] c = "Z" -> 90
      [] c = "a" -> 97 [] c = "b" -> 98 [] c = "v" -> 118 [] c = "w" -> 119

Min(m, n) == IF m <= n THEN m ELSE n

\* s < t on Python str: first differing character decides, else the shorter.
StrLess(s, t) ==
    \/ \E i \in 1..Min(Len(s), Len(t)) :
          /\ \A j \in 1..(i - 1) : s[j] = t[j]
          /\ CodePoint(s[i]) < CodePoint(t[i])
    \/ /\ Len(s) < Len(t)
       /\ \A j \in 1..Len(s) : s[j] = t[j]

Digit(d) == CASE d = 0 -> "0" [] d = 1 -> "1" [] d = 2 -> "2" [] d = 3 -> "3"
              [] d = 4 -> "4" [] d = 5 -> "5" [] d = 6 -> "6" [] d = 7 -> "7"
              [] d = 8 -> "8" [] d = 9 -> "9"

\* datetime.now(timezone.utc).isoformat(): a clock tick is half a second;
\* the seconds field has two digits, the fraction is left out when it is
\* zero, and the UTC offset follows.  The date, hour and minute fields, equal
\* for all ticks of the model, are left out.
IsoFormat(t) ==
    LET sec == t \div 2
    IN  <<Digit((sec \div 10) % 10), Digit(sec % 10)>>
        \o (IF t % 2 = 0 THEN <<>> ELSE <<".", "5">>)
        \o <<"+", "0", "0", ":", "0", "0">>

\* A window bound as a caller writes it for create_ballot (the command line
\* asks for "ISO8601"): the same instant in UTC with the Z designator.
IsoFormatZ(t) ==
    LET sec == t \div 2
    IN  <<Digit((sec \div 10) % 10), Digit(sec % 10)>>
        \o (IF t % 2 = 0 THEN <<>> ELSE <<".", "5">>)
        \o <<"Z">>

\* hashlib.sha256(raw).hexdigest(): a collision-resistant digest, modelled as
\* an injective tag of the hashed text.
sha256_hexdigest(raw) == <<"sha256", raw>>

_sign(voter_id, ballot_id, choice, timestamp) ==
    sha256_hexdigest(voter_id \o <<":">> \o ballot_id \o <<":">> \o choice
                     \o <<":">> \o timestamp)

verify_vote(vote) ==
    vote.signature = _sign(vote.voter_id, vote.ballot_id, vote.choice,
                           vote.timestamp)

\* ---------------------------------------------------------------- inputs
VoterIds == {<<"v">>, <<"w">>}
Choices == {<<"X">>, <<"Y">>, <<"Z">>}
ValidOptionLists == {<<<<"X">>, <<"Y">>>>}
OptionLists == ValidOptionLists \cup {<<<<"X">>>>}
\* str(uuid.uuid4())[:8]: a fresh name, here the next one of a pool
BallotIdPool == <<<<"b", "1">>, <<"b", "2">>, <<"b", "3">>>>
VoteIdPool == <<<<"a", "1">>, <<"a", "2">>, <<"a", "3">>, <<"a", "4">>,
                <<"a", "5">>, <<"a", "6">>>>
BallotIds == {BallotIdPool[i] : i \in 1..MaxBallots}
\* register_voter takes any ballot id: one that no stored ballot has
OtherBallotId == BallotIdPool[MaxBallots + 1]
\* under SpecTally: the ballots tallied, their options in either order
TallyBallotIds == {BallotIdPool[i] : i \in 1..MaxTallyBallots}
TallyOptionLists == {<<<<"X">>, <<"Y">>>>, <<<<"Y">>, <<"X">>>>}
Title == <<"a">>
Description == <<>>
\* the start_time and end_time a caller passes: ISO strings of these ticks
StartTicks == {1}
EndTicks == {2}
\* under SpecCreate: option lists with a label twice as well, and window
\* bounds in any order
AnyOptionLists == OptionLists \cup {<<<<"X">>, <<"X">>>>}
WindowTicks == StartTicks \cup EndTicks
\* create_ballot stores the strings it is given, in either form
StartTimes == {IsoFormat(t) : t \in StartTicks} \cup {IsoFormatZ(t) : t \in StartTicks}
EndTimes == {IsoFormat(t) : t \in EndTicks} \cup {IsoFormatZ(t) : t \in EndTicks}


\* ----------------------------------------------------------------- state
VARIABLES
    ballots,          \* table ballots: a set of rows
    eligible_voters,  \* table eligible_voters: a set of rows
    votes,            \* table votes: the committed rows
    now,              \* the wall clock, in ticks
    db_lock,          \* SQLite's write lock: Free, Held(caller) or Leaked
    pc,               \* where each caller stands in cast_vote
    arg,              \* the arguments of each caller's cast_vote call
    ballot,           \* cast_vote's local: the Ballot read from the row
    now_str,          \* cast_vote's local: the clock as read at line 196
    vote,             \* cast_vote's local: the Vote built at line 217
    ret,              \* how each caller's last cast_vote ended
    last,             \* how the last create_ballot call ended
    tally_pc,         \* where the caller of tally stands
    tally_arg,        \* the ballot_id of the tally call
    tally_ballot,     \* tally's local: the Ballot read from the row
    tally_ret,        \* what tally returns, once it has computed it
    tally_seen,       \* the votes on the ballot committed when tally was called
    permits,          \* permit_tracker: table permits, a set of rows
    permit_events,    \* permit_tracker: table permit_events, in insertion order
    permit_pc,        \* permit_tracker: where each caller stands in its call
    permit_arg,       \* permit_tracker: the arguments and locals of the call
    permit_ret,       \* permit_tracker: how each caller's last call ended
    documents,        \* public_records: table documents, a set of rows
    documents_fts,    \* public_records: what the full-text index holds
    document_revisions, \* public_records: table document_revisions
    records_ret,      \* public_records: what the last call returned or raised
    updates_done      \* public_records: update_document calls that returned, per id

vars == <<ballots, eligible_voters, votes, now, db_lock, pc, arg, ballot,
          now_str, vote, ret, last, tally_pc, tally_arg, tally_ballot,
          tally_ret, tally_seen, permits, permit_events, permit_pc,
          permit_arg, permit_ret, documents, documents_fts,
          document_revisions, records_ret, updates_done>>

db == <<ballots, eligible_voters, votes>>
locals == <<pc, arg, ballot, now_str, vote, ret>>
tally_locals == <<tally_pc, tally_arg, tally_ballot, tally_ret, tally_seen>>
\* the state of the two other programs of the repository, each with a
\* database of its own
permit_tracker == <<permits, permit_events, permit_pc, permit_arg, permit_ret>>
public_records == <<documents, documents_fts, document_revisions, records_ret,
                    updates_done>>

NoArg == [ballot_id |-> <<>>, voter_id |-> <<>>, choice |-> <<>>]
NoBallot == [id |-> <<>>]
NoVote == [id |-> <<>>]
NoStr == <<>>
NoResult == [pending |-> TRUE]

Free == <<"free">>
Held(p) == <<"held", p>>
Leaked == <<"leaked">>

\* the outcomes of a call: a returned value, or the exception raised
Ok == "ok"
NotFound == "ValueError: Ballot not found."
Closed == "ValueError: Ballot is closed."
NotOpen == "ValueError: Voting window has not opened yet."
WindowClosed == "ValueError: Voting window has closed."
InvalidChoice == "ValueError: Invalid choice."
NotRegistered == "ValueError: Voter is not registered for ballot."
AlreadyVoted == "ValueError: Voter has already voted on ballot."
TooFewOptions == "ValueError: A ballot must have at least 2 options."
IntegrityError == "sqlite3.IntegrityError: UNIQUE constraint failed: votes.voter_id, votes.ballot_id"

Init ==
    /\ ballots = {}
    /\ eligible_voters = {}
    /\ votes = {}
    /\ now = 0
    /\ db_lock = Free
    /\ pc = [p \in Procs |-> "idle"]
    /\ arg = [p \in Procs |-> NoArg]
    /\ ballot = [p \in Procs |-> NoBallot]
    /\ now_str = [p \in Procs |-> NoStr]
    /\ vote = [p \in Procs |-> NoVote]
    /\ ret = [p \in Procs |-> "none"]
    /\ last = "none"
    /\ tally_pc = "idle"
    /\ tally_arg = NoStr
    /\ tally_ballot = NoBallot
    /\ tally_ret = NoResult
    /\ tally_seen = {}
    /\ permits = {}
    /\ permit_events = <<>>
    /\ permit_pc = [p \in Procs |-> "idle"]
    /\ permit_arg = [p \in Procs |-> [op |-> "none"]]
    /\ permit_ret = [p \in Procs |-> NoResult]
    /\ documents = {}
    /\ documents_fts = {}
    /\ document_revisions = {}
    /\ records_ret = NoResult
    /\ updates_done = <<>>

\* --------------------------------------------------------------- queries
\* SELECT * FROM ballots WHERE id=?
BallotRows(ballot_id) == {r \in ballots : r.id = ballot_id}

\* mutant: the lookup leaves the ballot out
validate_eligibility_any_ballot(voter_id, ballot_id) ==
    \E r \in eligible_voters : r.voter_id = voter_id

\* SELECT 1 FROM eligible_voters WHERE voter_id=? AND ballot_id=?
validate_eligibility(voter_id, ballot_id) ==
    \E r \in eligible_voters : r.voter_id = voter_id /\ r.ballot_id = ballot_id

\* SELECT 1 FROM votes WHERE voter_id=? AND ballot_id=?
VoteRows(voter_id, ballot_id) ==
    {r \in votes : r.voter_id = voter_id /\ r.ballot_id = ballot_id}

\* choice in ballot.options
InOptions(choice, options) == \E i \in 1..Len(options) : options[i] = choice

\* ------------------------------------------------------------ the clock
\* mutant: a sweep closes the ballots whose end_time the clock has passed
TickWithSweep ==
    /\ now < MaxTime
    /\ now' = now + 1
    /\ ballots' = {IF StrLess(r.end_time, IsoFormat(now + 1))
                   THEN [r EXCEPT !.is_active = FALSE]
                   ELSE r : r \in ballots}
    /\ UNCHANGED <<eligible_voters, votes, db_lock, locals, last, tally_locals,
            permit_tracker, public_records>>

Tick ==
    /\ now < MaxTime
    /\ now' = now + 1
    /\ UNCHANGED <<db, db_lock, locals, last, tally_locals,
            permit_tracker, public_records>>

\* --------------------------------------------------------- create_ballot
\* mutant: the number of options is not tested
create_ballot_unchecked(title, description, options, start_time, end_time) ==
    /\ db_lock = Free
    /\ Cardinality(ballots) < Len(BallotIdPool)
    /\ ballots' = ballots \cup
          {[id |-> BallotIdPool[Cardinality(ballots) + 1],
            title |-> title,
            description |-> description,
            options |-> options,
            start_time |-> start_time,
            end_time |-> end_time,
            is_active |-> TRUE,
            created_at |-> IsoFormat(now)]}
    /\ last' = Ok
    /\ UNCHANGED <<eligible_voters, votes, now, db_lock, locals, tally_locals,
            permit_tracker, public_records>>

create_ballot(title, description, options, start_time, end_time) ==
    IF Len(options) < 2
    THEN /\ last' = TooFewOptions
         /\ UNCHANGED <<db, now, db_lock, locals, tally_locals,
            permit_tracker, public_records>>
    ELSE /\ db_lock = Free
         /\ Cardinality(ballots) < Len(BallotIdPool)
         /\ ballots' = ballots \cup
               {[id |-> BallotIdPool[Cardinality(ballots) + 1],
                 title |-> title,
                 description |-> description,
                 options |-> options,
                 start_time |-> start_time,
                 end_time |-> end_time,
                 is_active |-> TRUE,
                 created_at |-> IsoFormat(now)]}
         /\ last' = Ok
         /\ UNCHANGED <<eligible_voters, votes, now, db_lock, locals, tally_locals,
            permit_tracker, public_records>>

\* -------------------------------------------------------- register_voter
\* mutant: INSERT OR REPLACE, the row of a registered pair is written anew
register_voter_replace(voter_id, ballot_id) ==
    /\ db_lock = Free
    /\ eligible_voters' =
          {r \in eligible_voters :
              ~(r.voter_id = voter_id /\ r.ballot_id = ballot_id)}
          \cup {[voter_id |-> voter_id, ballot_id |-> ballot_id,
                 registered_at |-> IsoFormat(now)]}
    /\ UNCHANGED <<ballots, votes, now, db_lock, locals, last, tally_locals,
            permit_tracker, public_records>>

\* INSERT OR IGNORE: a row whose primary key is present is left as it is
register_voter(voter_id, ballot_id) ==
    /\ db_lock = Free
    /\ IF validate_eligibility(voter_id, ballot_id)
       THEN UNCHANGED eligible_voters
       ELSE eligible_voters' = eligible_voters \cup
               {[voter_id |-> voter_id, ballot_id |-> ballot_id,
                 registered_at |-> IsoFormat(now)]}
    /\ UNCHANGED <<ballots, votes, now, db_lock, locals, last, tally_locals,
            permit_tracker, public_records>>

\* ---------------------------------------------------------- close_ballot
\* UPDATE ballots SET is_active=0 WHERE id=?
\* mutant: closing a ballot also sets its end_time to the time of the call
close_ballot_stamping_end(ballot_id) ==
    /\ db_lock = Free
    /\ ballots' = {IF r.id = ballot_id
                   THEN [r EXCEPT !.is_active = FALSE,
                                  !.end_time = IsoFormat(now)]
                   ELSE r : r \in ballots}
    /\ UNCHANGED <<eligible_voters, votes, now, db_lock, locals, last,
                   tally_locals,
                   permit_tracker, public_records>>

\* mutant: the call flips the flag
close_ballot_toggle(ballot_id) ==
    /\ db_lock = Free
    /\ ballots' = {IF r.id = ballot_id
                   THEN [r EXCEPT !.is_active = ~r.is_active]
                   ELSE r : r \in ballots}
    /\ UNCHANGED <<eligible_voters, votes, now, db_lock, locals, last,
                   tally_locals,
                   permit_tracker, public_records>>

\* mutant: closing a ballot also deletes the votes cast on it
close_ballot_dropping_votes(ballot_id) ==
    /\ db_lock = Free
    /\ ballots' = {IF r.id = ballot_id THEN [r EXCEPT !.is_active = FALSE]
                   ELSE r : r \in ballots}
    /\ votes' = {r \in votes : r.ballot_id # ballot_id}
    /\ UNCHANGED <<eligible_voters, now, db_lock, locals, last, tally_locals,
            permit_tracker, public_records>>

\* mutant: closing a ballot also drops its eligibility entries
close_ballot_purging(ballot_id) ==
    /\ db_lock = Free
    /\ ballots' = {IF r.id = ballot_id THEN [r EXCEPT !.is_active = FALSE]
                   ELSE r : r \in ballots}
    /\ eligible_voters' = {r \in eligible_voters : r.ballot_id # ballot_id}
    /\ UNCHANGED <<votes, now, db_lock, locals, last, tally_locals,
            permit_tracker, public_records>>

close_ballot(ballot_id) ==
    /\ db_lock = Free
    /\ ballots' = {IF r.id = ballot_id THEN [r EXCEPT !.is_active = FALSE]
                   ELSE r : r \in ballots}
    /\ UNCHANGED <<eligible_voters, votes, now, db_lock, locals, last, tally_locals,
            permit_tracker, public_records>>

\* ------------------------------------------------------------- cast_vote
\* The call runs statement by statement; other callers may run in between.
\* When the call returns or raises, its arguments and locals are gone; ret
\* is what the caller has got.

\* the caller p invokes cast_vote(ballot_id, voter_id, choice)
call_cast_vote(p, ballot_id, voter_id, choice) ==
    /\ pc[p] \in {"idle", "done"}
    /\ pc' = [pc EXCEPT ![p] = "begin"]
    /\ arg' = [arg EXCEPT ![p] = [ballot_id |-> ballot_id,
                                  voter_id |-> voter_id,
                                  choice |-> choice]]
    /\ ret' = [ret EXCEPT ![p] = "none"]
    /\ UNCHANGED <<db, now, db_lock, ballot, now_str, vote, last, tally_locals,
            permit_tracker, public_records>>

\* raise: the call ends with exception e
Raise(p, e) ==
    /\ ret' = [ret EXCEPT ![p] = e]
    /\ pc' = [pc EXCEPT ![p] = "done"]
    /\ arg' = [arg EXCEPT ![p] = NoArg]
    /\ ballot' = [ballot EXCEPT ![p] = NoBallot]
    /\ now_str' = [now_str EXCEPT ![p] = NoStr]
    /\ vote' = [vote EXCEPT ![p] = NoVote]

\* mutant: the is_active flag is not tested
ActiveErrorNever(row) == "none"

\* lines 193-194
ActiveError(row) == IF ~row.is_active THEN Closed ELSE "none"

\* lines 197-200: the window test on the ISO strings
WindowError(now_s, start_time, end_time) ==
    IF StrLess(now_s, start_time) THEN NotOpen
    ELSE IF StrLess(end_time, now_s) THEN WindowClosed
    ELSE "none"

\* mutant: the choice is not tested
ChoiceErrorNever(choice, options) == "none"

\* lines 202-203
ChoiceError(choice, options) ==
    IF ~InOptions(choice, options) THEN InvalidChoice ELSE "none"

\* lines 187-203: the first of the tests that fails raises
BeginError(rows, now_s, choice) ==
    IF rows = {} THEN NotFound
    ELSE LET row == CHOOSE r \in rows : TRUE
             a == ActiveError(row)
             w == WindowError(now_s, row.start_time, row.end_time)
             c == ChoiceError(choice, row.options)
         IN  IF a # "none" THEN a
             ELSE IF w # "none" THEN w
             ELSE c

\* mutant: a call that finds the window over closes the ballot, then raises
cast_vote_begin_autoclose(p) ==
    /\ pc[p] = "begin"
    /\ LET rows == BallotRows(arg[p].ballot_id)
           e == BeginError(rows, IsoFormat(now), arg[p].choice)
       IN  IF e # "none"
           THEN /\ Raise(p, e)
                /\ ballots' = IF e = WindowClosed
                              THEN {IF r \in rows
                                    THEN [r EXCEPT !.is_active = FALSE]
                                    ELSE r : r \in ballots}
                              ELSE ballots
           ELSE /\ ballot' = [ballot EXCEPT ![p] = CHOOSE r \in rows : TRUE]
                /\ now_str' = [now_str EXCEPT ![p] = IsoFormat(now)]
                /\ pc' = [pc EXCEPT ![p] = "eligibility"]
                /\ UNCHANGED <<arg, ret, vote, ballots>>
    /\ UNCHANGED <<eligible_voters, votes, now, db_lock, last, tally_locals,
            permit_tracker, public_records>>

\* lines 184-203: the ballot row is read and its is_active flag tested; the
\* clock is read once; window and choice are tested on the caller's copy of
\* the ballot.  After the SELECT nothing of this reads the database, so the
\* statements are one step.
cast_vote_begin(p) ==
    /\ pc[p] = "begin"
    /\ LET rows == BallotRows(arg[p].ballot_id)
           e == BeginError(rows, IsoFormat(now), arg[p].choice)
       IN  IF e # "none"
           THEN Raise(p, e)
           ELSE /\ ballot' = [ballot EXCEPT ![p] = CHOOSE r \in rows : TRUE]
                /\ now_str' = [now_str EXCEPT ![p] = IsoFormat(now)]
                /\ pc' = [pc EXCEPT ![p] = "eligibility"]
                /\ UNCHANGED <<arg, ret, vote>>
    /\ UNCHANGED <<db, now, db_lock, last, tally_locals,
            permit_tracker, public_records>>

\* lines 205-206: validate_eligibility reads through a connection of its own
cast_vote_eligibility(p) ==
    /\ pc[p] = "eligibility"
    /\ IF ~validate_eligibility(arg[p].voter_id, arg[p].ballot_id)
       THEN Raise(p, NotRegistered)
       ELSE /\ pc' = [pc EXCEPT ![p] = "dupe"]
            /\ UNCHANGED <<arg, ret, ballot, now_str, vote>>
    /\ UNCHANGED <<db, now, db_lock, last, tally_locals,
            permit_tracker, public_records>>

\* mutant: no duplicate pre-check
HasVotedNever(voter_id, ballot_id) == FALSE

\* mutant: the pre-check asks for any vote on the ballot, whoever cast it
HasVotedAnyVoter(voter_id, ballot_id) ==
    \E r \in votes : r.ballot_id = ballot_id

\* lines 208-211: the duplicate pre-check, a read of the committed votes
HasVoted(voter_id, ballot_id) == VoteRows(voter_id, ballot_id) # {}

\* lines 208-213
cast_vote_dupe(p) ==
    /\ pc[p] = "dupe"
    /\ IF HasVoted(arg[p].voter_id, arg[p].ballot_id)
       THEN Raise(p, AlreadyVoted)
       ELSE /\ pc' = [pc EXCEPT ![p] = "insert"]
            /\ UNCHANGED <<arg, ret, ballot, now_str, vote>>
    /\ UNCHANGED <<db, now, db_lock, last, tally_locals,
            permit_tracker, public_records>>

\* mutant: _sign is called with cast_vote's argument order (ballot_id first)
NewVoteSwappedSign(voter_id, ballot_id, choice, timestamp) ==
    [id |-> VoteIdPool[Cardinality(votes) + 1],
     voter_id |-> voter_id,
     ballot_id |-> ballot_id,
     choice |-> choice,
     timestamp |-> timestamp,
     signature |-> _sign(ballot_id, voter_id, choice, timestamp)]

\* lines 215-224: the Vote the call builds
NewVote(voter_id, ballot_id, choice, timestamp) ==
    [id |-> VoteIdPool[Cardinality(votes) + 1],
     voter_id |-> voter_id,
     ballot_id |-> ballot_id,
     choice |-> choice,
     timestamp |-> timestamp,
     signature |-> _sign(voter_id, ballot_id, choice, timestamp)]

\* mutant: the table votes without its UNIQUE constraint
NoUniqueConstraint(row) == FALSE

\* init_db, line 94: UNIQUE(voter_id, ballot_id) on the table votes
UniqueViolation(row) ==
    \E r \in votes : r.voter_id = row.voter_id /\ r.ballot_id = row.ballot_id

\* lines 215-225: the INSERT begins a transaction and takes the write lock.
\* A row that breaks the UNIQUE constraint makes the INSERT raise
\* sqlite3.IntegrityError; nothing catches it, and the connection is neither
\* rolled back nor closed, so its transaction keeps the write lock.
cast_vote_insert(p) ==
    /\ pc[p] = "insert"
    /\ db_lock = Free
    /\ LET row == NewVote(arg[p].voter_id, arg[p].ballot_id, arg[p].choice,
                          now_str[p])
       IN  IF UniqueViolation(row)
           THEN /\ Raise(p, IntegrityError)
                /\ db_lock' = Leaked
           ELSE /\ vote' = [vote EXCEPT ![p] = row]
                /\ pc' = [pc EXCEPT ![p] = "commit"]
                /\ db_lock' = Held(p)
                /\ UNCHANGED <<arg, ret, ballot, now_str>>
    /\ UNCHANGED <<db, now, last, tally_locals,
            permit_tracker, public_records>>

\* lines 226-228: commit publishes the row and frees the lock; the Vote is
\* returned
cast_vote_commit(p) ==
    /\ pc[p] = "commit"
    /\ db_lock = Held(p)
    /\ votes' = votes \cup {vote[p]}
    /\ db_lock' = Free
    /\ ret' = [ret EXCEPT ![p] = Ok]
    /\ pc' = [pc EXCEPT ![p] = "done"]
    /\ arg' = [arg EXCEPT ![p] = NoArg]
    /\ ballot' = [ballot EXCEPT ![p] = NoBallot]
    /\ now_str' = [now_str EXCEPT ![p] = NoStr]
    /\ vote' = [vote EXCEPT ![p] = NoVote]
    /\ UNCHANGED <<ballots, eligible_voters, now, last, tally_locals,
            permit_tracker, public_records>>

\* The connection a failed cast_vote left open is closed when the garbage
\* collector finalises it: its transaction is rolled back, the lock freed.
ConnectionFinalized ==
    /\ db_lock = Leaked
    /\ db_lock' = Free
    /\ UNCHANGED <<db, now, locals, last, tally_locals,
            permit_tracker, public_records>>

\* ------------------------------------------------------------------ tally
\* winner when there is no vote
None == <<"None">>

\* {opt: 0 for opt in ballot.options}: the keys of the dict in the order
\* they are inserted, a label that comes again keeping its first place
RECURSIVE counts_keys(_)
counts_keys(options) ==
    IF options = <<>> THEN <<>>
    ELSE LET front == counts_keys(SubSeq(options, 1, Len(options) - 1))
             opt == options[Len(options)]
         IN  IF \E i \in 1..Len(front) : front[i] = opt
             THEN front
             ELSE Append(front, opt)

\* mutant: SELECT choice FROM votes, without the WHERE ballot_id=?
SelectChoicesAllBallots(ballot_id) == votes

\* SELECT choice FROM votes WHERE ballot_id=?
SelectChoices(ballot_id) == {r \in votes : r.ballot_id = ballot_id}

\* lines 241-244: one pass over the rows, counting the choices that are keys
RECURSIVE count_rows(_, _)
count_rows(rows, counts) ==
    IF rows = {} THEN counts
    ELSE LET vrow == CHOOSE r \in rows : TRUE
         IN  count_rows(rows \ {vrow},
                        IF vrow.choice \in DOMAIN counts
                        THEN [counts EXCEPT ![vrow.choice] = @ + 1]
                        ELSE counts)

\* sum(counts.values())
RECURSIVE sum_values(_, _)
sum_values(keys, counts) ==
    IF keys = <<>> THEN 0
    ELSE counts[keys[1]] + sum_values(Tail(keys), counts)

\* round(100 * cnt / total, 2), in hundredths of a percent: the nearest
\* hundredth, the even one of two that are equally near
percentage(cnt, total) ==
    LET n == 10000 * cnt
        q == n \div total
        r == n % total
    IN  IF 2 * r < total THEN q
        ELSE IF 2 * r > total THEN q + 1
        ELSE IF q % 2 = 0 THEN q ELSE q + 1

\* mutant: of the options with the greatest count the last one wins
RECURSIVE max_key_last(_, _)
max_key_last(keys, counts) ==
    IF Len(keys) = 1 THEN keys[1]
    ELSE LET best == max_key_last(Tail(keys), counts)
         IN  IF counts[keys[1]] > counts[best] THEN keys[1] ELSE best

\* max(counts, key=counts.get): the keys are scanned in the dict's order and
\* a key replaces the best so far only with a greater count
RECURSIVE max_key(_, _)
max_key(keys, counts) ==
    IF Len(keys) = 1 THEN keys[1]
    ELSE LET best == max_key(SubSeq(keys, 1, Len(keys) - 1), counts)
             k == keys[Len(keys)]
         IN  IF counts[k] > counts[best] THEN k ELSE best

\* mutant: the winner is computed whether there are votes or not
tally_result_always_winner(row, rows) ==
    LET keys == counts_keys(row.options)
        counts == count_rows(rows, [k \in {keys[i] : i \in 1..Len(keys)} |-> 0])
        total == sum_values(keys, counts)
    IN  [ballot_id |-> row.id,
         title |-> row.title,
         total_votes |-> total,
         counts |-> counts,
         percentages |-> [k \in DOMAIN counts |->
                             IF total # 0 THEN percentage(counts[k], total)
                             ELSE 0],
         winner |-> max_key(keys, counts)]

\* lines 240-261, from the ballot row and the vote rows the call has read
tally_result(row, rows) ==
    LET keys == counts_keys(row.options)
        counts == count_rows(rows, [k \in {keys[i] : i \in 1..Len(keys)} |-> 0])
        total == sum_values(keys, counts)
    IN  [ballot_id |-> row.id,
         title |-> row.title,
         total_votes |-> total,
         counts |-> counts,
         percentages |-> [k \in DOMAIN counts |->
                             IF total # 0 THEN percentage(counts[k], total)
                             ELSE 0],
         winner |-> IF total # 0 THEN max_key(keys, counts) ELSE None]

\* tally(ballot_id) on the committed rows: the error of line 237, or the dict
tally(ballot_id) ==
    IF BallotRows(ballot_id) = {} THEN [error |-> NotFound]
    ELSE tally_result(CHOOSE r \in BallotRows(ballot_id) : TRUE,
                      SelectChoices(ballot_id))

\* --------------------------------------------------------- export_results
\* the rows of a set of votes in the order of their insertion, which is the
\* order in which the ids of the model are given out
InInsertionOrder(rows) ==
    LET upto[i \in 0..Len(VoteIdPool)] ==
           IF i = 0 THEN <<>>
           ELSE LET found == {r \in rows : r.id = VoteIdPool[i]}
                IN  IF found = {} THEN upto[i - 1]
                    ELSE Append(upto[i - 1], CHOOSE r \in found : TRUE)
    IN  upto[Len(VoteIdPool)]

\* mutant: SELECT * FROM votes, without the WHERE ballot_id=?
SelectVotesAllBallots(ballot_id) == InInsertionOrder(votes)

\* SELECT * FROM votes WHERE ballot_id=?  (lines 270-272)
SelectVotes(ballot_id) ==
    InInsertionOrder({r \in votes : r.ballot_id = ballot_id})

CsvHeader == <<"voter_id", "ballot_id", "choice", "timestamp", "signature">>

\* lines 279-281: the row csv.writer is given for a vote
CsvRow(v) == <<v.voter_id, v.ballot_id, v.choice, v.timestamp, v.signature>>

UnknownFormat == "ValueError: Unknown format."

\* export_results(ballot_id, fmt) on the committed rows: the document for
\* "json", the rows written for "csv", or the error raised
export_results(ballot_id, fmt) ==
    LET summary == tally(ballot_id)
        rows == SelectVotes(ballot_id)
    IN  IF "error" \in DOMAIN summary THEN summary
        ELSE IF fmt = "json" THEN [summary |-> summary, votes |-> rows]
        ELSE IF fmt = "csv"
             THEN <<CsvHeader>> \o [i \in 1..Len(rows) |-> CsvRow(rows[i])]
        ELSE [error |-> UnknownFormat]

\* -------------------------------------------------------------- cmd_verify
\* not verify_vote(v)
IsInvalid(v) == ~verify_vote(v)

\* mutant: only the first invalid vote is reported
cmd_verify_first_only(ballot_id) ==
    LET all == SelectVotes(ballot_id)
        invalid == SelectSeq(all, IsInvalid)
    IN  IF invalid # <<>>
        THEN [exit |-> 1, count |-> 1,
              lines |-> <<<<invalid[1].id, invalid[1].voter_id>>>>]
        ELSE [exit |-> 0, count |-> Len(all), lines |-> <<>>]

\* lines 376-388: what the verify command prints (the number of votes it
\* names, and a line with the id and the voter for each invalid vote) and
\* the exit status
cmd_verify(ballot_id) ==
    LET all == SelectVotes(ballot_id)
        invalid == SelectSeq(all, IsInvalid)
    IN  IF invalid # <<>>
        THEN [exit |-> 1, count |-> Len(invalid),
              lines |-> [i \in 1..Len(invalid) |->
                            <<invalid[i].id, invalid[i].voter_id>>]]
        ELSE [exit |-> 0, count |-> Len(all), lines |-> <<>>]

\* A row of votes is changed in the database file, not through the API: its
\* choice becomes another label and its signature stays.
Tamper ==
    /\ \E r \in votes, c \in Choices :
          /\ c # r.choice
          /\ votes' = (votes \ {r}) \cup {[r EXCEPT !.choice = c]}
    /\ UNCHANGED <<ballots, eligible_voters, now, db_lock, locals, last,
                   tally_locals,
                   permit_tracker, public_records>>

\* ------------------------------------------------- tally, step by step
\* A call of tally next to the callers of cast_vote: each SELECT reads the
\* rows committed at its instant.
call_tally(ballot_id) ==
    /\ tally_pc = "idle"
    /\ tally_pc' = "ballot"
    /\ tally_arg' = ballot_id
    /\ tally_seen' = SelectChoices(ballot_id)
    /\ UNCHANGED <<db, now, db_lock, locals, last, tally_ballot, tally_ret,
            permit_tracker, public_records>>

\* lines 235-238
tally_select_ballot ==
    /\ tally_pc = "ballot"
    /\ IF BallotRows(tally_arg) = {}
       THEN /\ tally_ret' = [error |-> NotFound]
            /\ tally_pc' = "done"
            /\ tally_arg' = NoStr
            /\ tally_seen' = {}
            /\ UNCHANGED tally_ballot
       ELSE /\ tally_ballot' = CHOOSE r \in BallotRows(tally_arg) : TRUE
            /\ tally_pc' = "votes"
            /\ UNCHANGED <<tally_arg, tally_ret, tally_seen>>
    /\ UNCHANGED <<db, now, db_lock, locals, last,
            permit_tracker, public_records>>

\* mutant: the rows are read twice, and both readings are counted
tally_select_votes_twice ==
    /\ tally_pc = "votes"
    /\ LET once == tally_result(tally_ballot, SelectChoices(tally_arg))
       IN  tally_ret' =
              [once EXCEPT !.total_votes = 2 * @,
                           !.counts = [k \in DOMAIN @ |-> 2 * @[k]]]
    /\ tally_pc' = "return"
    /\ UNCHANGED <<db, now, db_lock, locals, last, tally_arg, tally_ballot,
                   tally_seen,
                   permit_tracker, public_records>>

\* lines 240-252: the vote rows are read by one SELECT and counted
tally_select_votes ==
    /\ tally_pc = "votes"
    /\ tally_ret' = tally_result(tally_ballot, SelectChoices(tally_arg))
    /\ tally_pc' = "return"
    /\ UNCHANGED <<db, now, db_lock, locals, last, tally_arg, tally_ballot,
                   tally_seen,
                   permit_tracker, public_records>>

\* lines 254-261
tally_return ==
    /\ tally_pc = "return"
    /\ tally_pc' = "done"
    /\ tally_arg' = NoStr
    /\ tally_ballot' = NoBallot
    /\ tally_seen' = {}
    /\ UNCHANGED <<db, now, db_lock, locals, last, tally_ret,
            permit_tracker, public_records>>

\* ------------------------------------------------------------------ Next
\* Concurrent callers: every interleaving of the statements of cast_vote with
\* each other and with the single-statement operations.  The ballot is set
\* up (created, voters registered) at the ticks 0..LastSetupTick.
Next ==
    \/ Tick
    \/ /\ now <= LastSetupTick
       /\ Cardinality(ballots) < MaxBallots
       /\ \E o \in ValidOptionLists, s \in StartTimes, e \in EndTimes :
             create_ballot(Title, Description, o, s, e)
    \/ /\ now <= LastSetupTick
       /\ \E v \in VoterIds, b \in BallotIds : register_voter(v, b)
    \/ \E b \in BallotIds : close_ballot(b)
    \/ \E p \in Procs, b \in BallotIds, v \in VoterIds, c \in Choices :
          call_cast_vote(p, b, v, c)
    \/ \E p \in Procs : cast_vote_begin(p)
    \/ \E p \in Procs : cast_vote_eligibility(p)
    \/ \E p \in Procs : cast_vote_dupe(p)
    \/ \E p \in Procs : cast_vote_insert(p)
    \/ \E p \in Procs : cast_vote_commit(p)
    \/ ConnectionFinalized

Spec == Init /\ [][Next]_vars

\* One caller, one operation at a time: an operation starts only when no
\* call is in progress.  Setup at any tick, option lists of any length.
Quiet == \A p \in Procs : pc[p] \in {"idle", "done"}

NextSeq ==
    \/ Tick
    \/ /\ Quiet
       /\ \E o \in OptionLists, s \in StartTimes, e \in EndTimes :
             /\ Len(o) >= 2 => Cardinality(ballots) < MaxBallots
             /\ create_ballot(Title, Description, o, s, e)
    \/ /\ Quiet
       /\ \E v \in VoterIds, b \in BallotIds : register_voter(v, b)
    \/ /\ Quiet
       /\ \E b \in BallotIds : close_ballot(b)
    \/ /\ Quiet
       /\ \E b \in BallotIds, v \in VoterIds, c \in Choices :
             call_cast_vote(1, b, v, c)
    \/ cast_vote_begin(1)
    \/ cast_vote_eligibility(1)
    \/ cast_vote_dupe(1)
    \/ cast_vote_insert(1)
    \/ cast_vote_commit(1)

SpecSeq == Init /\ [][NextSeq]_vars

\* Concurrent callers as under Spec, with registrations for another ballot
\* id as well; the window bounds are in the format of isoformat().
NextReg ==
    \/ Tick
    \/ /\ now <= LastSetupTick
       /\ Cardinality(ballots) < MaxBallots
       /\ \E o \in ValidOptionLists, s \in StartTicks, e \in EndTicks :
             create_ballot(Title, Description, o, IsoFormat(s), IsoFormat(e))
    \/ /\ now <= LastSetupTick
       /\ \E v \in VoterIds, b \in BallotIds \cup {OtherBallotId} :
             register_voter(v, b)
    \/ \E b \in BallotIds : close_ballot(b)
    \/ \E p \in Procs, b \in BallotIds, v \in VoterIds, c \in Choices :
          call_cast_vote(p, b, v, c)
    \/ \E p \in Procs : cast_vote_begin(p)
    \/ \E p \in Procs : cast_vote_eligibility(p)
    \/ \E p \in Procs : cast_vote_dupe(p)
    \/ \E p \in Procs : cast_vote_insert(p)
    \/ \E p \in Procs : cast_vote_commit(p)
    \/ ConnectionFinalized

SpecReg == Init /\ [][NextReg]_vars

\* One caller, one operation at a time, on up to MaxTallyBallots ballots that
\* are created and registered for by LastSetupTick.
NextTally ==
    \/ Tick
    \/ /\ Quiet
       /\ now <= LastSetupTick
       /\ Cardinality(ballots) < MaxTallyBallots
       /\ \E o \in TallyOptionLists, s \in StartTicks, e \in EndTicks :
             create_ballot(Title, Description, o, IsoFormat(s), IsoFormat(e))
    \/ /\ Quiet
       /\ now <= LastSetupTick
       /\ \E v \in VoterIds, b \in TallyBallotIds : register_voter(v, b)
    \/ /\ Quiet
       /\ \E b \in TallyBallotIds, v \in VoterIds, c \in Choices :
             call_cast_vote(1, b, v, c)
    \/ cast_vote_begin(1)
    \/ cast_vote_eligibility(1)
    \/ cast_vote_dupe(1)
    \/ cast_vote_insert(1)
    \/ cast_vote_commit(1)

SpecTally == Init /\ [][NextTally]_vars

\* One call of tally next to the concurrent callers of cast_vote.
NextRace ==
    \/ Tick
    \/ /\ now <= LastSetupTick
       /\ Cardinality(ballots) < MaxBallots
       /\ \E o \in ValidOptionLists, s \in StartTicks, e \in EndTicks :
             create_ballot(Title, Description, o, IsoFormat(s), IsoFormat(e))
    \/ /\ now <= LastSetupTick
       /\ \E v \in VoterIds, b \in BallotIds : register_voter(v, b)
    \/ \E p \in Procs, b \in BallotIds, v \in VoterIds, c \in Choices :
          call_cast_vote(p, b, v, c)
    \/ \E p \in Procs : cast_vote_begin(p)
    \/ \E p \in Procs : cast_vote_eligibility(p)
    \/ \E p \in Procs : cast_vote_dupe(p)
    \/ \E p \in Procs : cast_vote_insert(p)
    \/ \E p \in Procs : cast_vote_commit(p)
    \/ ConnectionFinalized
    \/ \E b \in BallotIds : call_tally(b)
    \/ tally_select_ballot
    \/ tally_select_votes
    \/ tally_return

SpecRace == Init /\ [][NextRace]_vars

\* One caller, one operation at a time, on up to MaxTallyBallots ballots;
\* every cast is for the first option, and at the end of the clock the
\* stored votes are tampered with.
NextTamper ==
    \/ Tick
    \/ /\ Quiet
       /\ now <= LastSetupTick
       /\ Cardinality(ballots) < MaxTallyBallots
       /\ \E o \in ValidOptionLists, s \in StartTicks, e \in EndTicks :
             create_ballot(Title, Description, o, IsoFormat(s), IsoFormat(e))
    \/ /\ Quiet
       /\ now <= LastSetupTick
       /\ \E v \in VoterIds, b \in TallyBallotIds : register_voter(v, b)
    \/ /\ Quiet
       /\ \E b \in TallyBallotIds, v \in VoterIds, o \in ValidOptionLists :
             call_cast_vote(1, b, v, o[1])
    \/ cast_vote_begin(1)
    \/ cast_vote_eligibility(1)
    \/ cast_vote_dupe(1)
    \/ cast_vote_insert(1)
    \/ cast_vote_commit(1)
    \/ /\ Quiet
       /\ now = MaxTime
       /\ Tamper

SpecTamper == Init /\ [][NextTamper]_vars

\* One caller, one operation at a time; create_ballot is given option lists
\* of any kind and the window bounds in any order.
NextCreate ==
    \/ Tick
    \/ /\ Quiet
       /\ now <= LastSetupTick
       /\ \E o \in AnyOptionLists, s \in WindowTicks, e \in WindowTicks :
             /\ Len(o) >= 2 => Cardinality(ballots) < MaxBallots
             /\ create_ballot(Title, Description, o, IsoFormat(s), IsoFormat(e))
    \/ /\ Quiet
       /\ now <= LastSetupTick
       /\ \E v \in VoterIds, b \in BallotIds : register_voter(v, b)
    \/ /\ Quiet
       /\ \E b \in BallotIds : close_ballot(b)
    \/ /\ Quiet
       /\ \E b \in BallotIds, v \in VoterIds, c \in Choices :
             call_cast_vote(1, b, v, c)
    \/ cast_vote_begin(1)
    \/ cast_vote_eligibility(1)
    \/ cast_vote_dupe(1)
    \/ cast_vote_insert(1)
    \/ cast_vote_commit(1)

SpecCreate == Init /\ [][NextCreate]_vars

\* ================================================================ claims
\* a step that ends caller p's cast_vote call
Completes(p) == pc[p] \notin {"idle", "done"} /\ pc'[p] = "done"

\* the committed votes of the pair of caller p's call, before and after a step
PairVotes(p) ==
    {r \in votes : r.voter_id = arg[p].voter_id
                   /\ r.ballot_id = arg[p].ballot_id}
PairVotesAfter(p) ==
    {r \in votes' : r.voter_id = arg[p].voter_id
                    /\ r.ballot_id = arg[p].ballot_id}

\* C1: in every reachable state, under any interleaving of create_ballot,
\* register_voter, cast_vote and close_ballot, the votes table holds at most
\* one Vote for each (voter_id, ballot_id) pair.
C1_AtMostOneVotePerPair ==
    \A r1, r2 \in votes :
        (r1.voter_id = r2.voter_id /\ r1.ballot_id = r2.ballot_id) => r1 = r2

\* A second INSERT for a pair was refused at commit time: its caller had
\* passed the pre-check.
C1_Witness ==
    \E p \in Procs : ret[p] = IntegrityError /\ Cardinality(votes) = 1

\* C2: of the cast_vote calls that race for one (voter_id, ballot_id) pair
\* with all other guards satisfied, exactly one returns a Vote and the others
\* fail.  A call returns a Vote only while no Vote of its pair is committed,
\* and it commits exactly that one (so no second call of the pair returns
\* one); and a call that has passed the guards before the duplicate check
\* fails only when a Vote of its pair is committed already (so the racing
\* calls cannot all fail).
C2_ExactlyOneWins ==
    [][\A p \in Procs :
          /\ (Completes(p) /\ ret'[p] = Ok) =>
                /\ PairVotes(p) = {}
                /\ Cardinality(PairVotesAfter(p)) = 1
          /\ (Completes(p) /\ pc[p] \in {"dupe", "insert", "commit"}
                /\ ret'[p] # Ok) =>
                PairVotes(p) # {}]_vars

\* Two callers raced for one pair: one returned the Vote, the other failed at
\* its INSERT.
C2_Witness ==
    \E p, q \in Procs :
        /\ p # q
        /\ ret[p] = Ok
        /\ ret[q] = IntegrityError
        /\ Cardinality(votes) = 1

\* C3: a cast_vote call that passed the duplicate pre-check and whose INSERT
\* breaks the uniqueness constraint fails with the Conflict "already voted"
\* error of the pre-check, never with a raw storage-layer error.
C3_CommitConflictIsAlreadyVoted ==
    \A p \in Procs : ret[p] # IntegrityError

\* ---- the guards of a call, as section 4.4 of the specification lists them,
\* ---- read on the state before a step of caller p

\* the tick an ISO string of the model stands for
TickOf(str) == CHOOSE t \in Times : str \in {IsoFormat(t), IsoFormatZ(t)}

\* the clock value the call reads (at its first step) or has read
CallTime(p) == IF pc[p] = "begin" THEN now ELSE TickOf(now_str[p])

CalledBallot(p) == CHOOSE r \in ballots : r.id = arg[p].ballot_id

BallotExists(p) == \E r \in ballots : r.id = arg[p].ballot_id
BallotActive(p) == CalledBallot(p).is_active
NotBeforeStart(p) == TickOf(CalledBallot(p).start_time) <= CallTime(p)
NotAfterEnd(p) == CallTime(p) <= TickOf(CalledBallot(p).end_time)
ChoiceValid(p) ==
    arg[p].choice \in {CalledBallot(p).options[i] :
                          i \in 1..Len(CalledBallot(p).options)}
VoterEligible(p) ==
    \E r \in eligible_voters :
        r.voter_id = arg[p].voter_id /\ r.ballot_id = arg[p].ballot_id
NotYetVoted(p) == PairVotes(p) = {}

\* the outcome the ordered guards prescribe
ExpectedOutcome(p) ==
    IF ~BallotExists(p) THEN NotFound
    ELSE IF ~BallotActive(p) THEN Closed
    ELSE IF ~NotBeforeStart(p) THEN NotOpen
    ELSE IF ~NotAfterEnd(p) THEN WindowClosed
    ELSE IF ~ChoiceValid(p) THEN InvalidChoice
    ELSE IF ~VoterEligible(p) THEN NotRegistered
    ELSE IF ~NotYetVoted(p) THEN AlreadyVoted
    ELSE Ok

\* a step of caller p's call in progress
StepOf(p) == pc[p] \notin {"idle", "done"} /\ pc'[p] # pc[p]

C5_EarliestGuardReported ==
    [][\A p \in Procs :
          (Completes(p) /\ ret'[p] # Ok) => ret'[p] = ExpectedOutcome(p)]_vars

\* C6: a cast_vote call that fails leaves ballots, eligibility registry and
\* votes as they were: the step that ends it in an error changes no table,
\* and a step of a call that changes a table is the one that returns the
\* Vote.
C6_FailedCastChangesNothing ==
    [][\A p \in Procs :
          /\ (Completes(p) /\ ret'[p] # Ok) => db' = db
          /\ (StepOf(p) /\ db' # db) => (Completes(p) /\ ret'[p] = Ok)]_vars

\* A call failed while votes were stored.
C6_Witness ==
    \E p \in Procs : ret[p] \notin {"none", Ok} /\ Cardinality(votes) = 2

\* C7: on a ballot whose is_active flag is false every cast_vote fails with
\* the closed-ballot error and commits nothing, whatever the time, the voter
\* and the choice.
C7_ClosedBallotRefuses ==
    [][\A p \in Procs :
          (StepOf(p) /\ pc[p] = "begin" /\ BallotExists(p)
             /\ ~BallotActive(p)) =>
              (Completes(p) /\ ret'[p] = Closed /\ db' = db)]_vars

\* A call was refused on a closed ballot inside the window, all voters being
\* registered: the stored vote was cast inside the window, before the close.
C7_Witness ==
    \E p \in Procs, b \in ballots :
        /\ ret[p] = Closed
        /\ ~b.is_active
        /\ votes # {}
        /\ now <= TickOf(b.end_time)
        /\ \A v \in VoterIds : validate_eligibility(v, b.id)

\* C8: on an existing active ballot a cast_vote at a time strictly before
\* start_time fails with the window-not-yet-open error, one at a time
\* strictly after end_time with the window-closed error; nothing is
\* committed.
C8_OutsideWindowRefuses ==
    [][\A p \in Procs :
          (StepOf(p) /\ pc[p] = "begin" /\ BallotExists(p)
             /\ BallotActive(p)) =>
              /\ now < TickOf(CalledBallot(p).start_time) =>
                    (Completes(p) /\ ret'[p] = NotOpen /\ db' = db)
              /\ now > TickOf(CalledBallot(p).end_time) =>
                    (Completes(p) /\ ret'[p] = WindowClosed /\ db' = db)]_vars

\* C9: a call made when all guards hold, with no other operation running,
\* succeeds and adds exactly one Vote: the given voter_id, ballot_id and
\* choice, timestamp = the time the call read, signature = bind of the four.
C9_CastSucceeds ==
    [][\A p \in Procs :
          (Completes(p) /\ ExpectedOutcome(p) = Ok) =>
              LET ts == IsoFormat(CallTime(p))
              IN  /\ ret'[p] = Ok
                  /\ Cardinality(votes') = Cardinality(votes) + 1
                  /\ \E row \in votes' :
                        /\ votes' = votes \cup {row}
                        /\ row.voter_id = arg[p].voter_id
                        /\ row.ballot_id = arg[p].ballot_id
                        /\ row.choice = arg[p].choice
                        /\ row.timestamp = ts
                        /\ row.signature =
                              sha256_hexdigest(
                                 arg[p].voter_id \o <<":">>
                                 \o arg[p].ballot_id \o <<":">>
                                 \o arg[p].choice \o <<":">> \o ts)
                  /\ UNCHANGED <<ballots, eligible_voters>>]_vars

\* the choice of every committed vote is an option of its ballot
VotesChooseOptions ==
    \A r \in votes :
        \E b \in ballots :
            /\ b.id = r.ballot_id
            /\ \E i \in 1..Len(b.options) : b.options[i] = r.choice

VotersWereEligible ==
    \A r \in votes :
        \E e \in eligible_voters :
            e.voter_id = r.voter_id /\ e.ballot_id = r.ballot_id

\* C11: cast_vote refuses with the not-registered error a voter who is not
\* registered for the ballot of the call, a registration for another ballot
\* not counting, and commits nothing; so the pair of every committed vote is
\* in the eligibility registry in every reachable state.
C11_OnlyEligibleVotersVote ==
    /\ []VotersWereEligible
    /\ [][\A p \in Procs :
            /\ (StepOf(p) /\ pc[p] = "eligibility" /\ ~VoterEligible(p)) =>
                  (Completes(p) /\ ret'[p] = NotRegistered /\ db' = db)
            /\ (Completes(p) /\ ret'[p] = Ok) => VoterEligible(p)]_vars

\* A voter was refused as not registered while every voter is registered for
\* the other ballot id, and another voter's vote is stored.
C11_Witness ==
    \E p \in Procs :
        /\ ret[p] = NotRegistered
        /\ \A v \in VoterIds :
              \E e \in eligible_voters :
                  e.voter_id = v /\ e.ballot_id = OtherBallotId
        /\ votes # {}

\* C12: verify_vote is true of every committed vote, in every state the API
\* can reach: the stored signature is _sign of the vote's own stored
\* voter_id, ballot_id, choice and timestamp.
C12_CommittedVotesVerify == \A r \in votes : verify_vote(r)

\* Two votes are stored, cast at different times.
C12_Witness ==
    \E r1, r2 \in votes : r1.timestamp # r2.timestamp /\ r1.choice # r2.choice

\* ---- altering a stored vote while keeping its signature

\* the text _sign hashes for the vote
RawOf(r) ==
    r.voter_id \o <<":">> \o r.ballot_id \o <<":">> \o r.choice
    \o <<":">> \o r.timestamp

\* every way of reading the text as four fields with ":" between them
Splits(raw) ==
    {<<SubSeq(raw, 1, i - 1), SubSeq(raw, i + 1, j - 1),
       SubSeq(raw, j + 1, k - 1), SubSeq(raw, k + 1, Len(raw))>> :
        <<i, j, k>> \in {t \in (1..Len(raw)) \X (1..Len(raw)) \X (1..Len(raw)) :
                            /\ t[1] < t[2] /\ t[2] < t[3]
                            /\ raw[t[1]] = ":" /\ raw[t[2]] = ":"
                            /\ raw[t[3]] = ":"}}

\* the field values an alteration of vote r may write: another voter or
\* choice of the model, or any reading of r's own signed text
FieldValues(r) ==
    (VoterIds \X {r.ballot_id} \X Choices \X {r.timestamp})
       \cup Splits(RawOf(r))

\* the votes that differ from r in at least one of the four fields and keep
\* its id and signature
Altered(r) ==
    {[r EXCEPT !.voter_id = f[1], !.ballot_id = f[2],
               !.choice = f[3], !.timestamp = f[4]] :
        f \in FieldValues(r) \ {<<r.voter_id, r.ballot_id, r.choice,
                                  r.timestamp>>}}

\* C13: altering one or more of voter_id, ballot_id, choice and timestamp of
\* a vote that cast_vote produced, the signature being kept, makes
\* verify_vote false, whatever the field values, ":" included.
C13_AlterationDetected ==
    \A r \in votes : \A t \in Altered(r) : ~verify_vote(t)

\* every stored ballot has at least 2 options
BallotsHaveTwoOptions == \A b \in ballots : Len(b.options) >= 2

\* C14: create_ballot with fewer than 2 options fails with the InvalidInput
\* error and stores nothing, so that every stored ballot has at least 2
\* options in every reachable state.
C14_AtLeastTwoOptions ==
    /\ []BallotsHaveTwoOptions
    /\ [][(last' = TooFewOptions /\ last # TooFewOptions) => db' = db]_vars

\* A create_ballot call was refused for its options after one had stored a
\* ballot.
C14_Witness == last = TooFewOptions /\ ballots # {}

\* C15: is_active is true when the ballot is created and changes only in a
\* close_ballot step, from true to false: the passing of end_time does not
\* change it, and a false flag never becomes true again.
C15_OnlyCloseClearsActive ==
    [][/\ \A b \in ballots' :
             (\A a \in ballots : a.id # b.id) => b.is_active
       /\ \A a \in ballots :
             \E b \in ballots' :
                /\ b.id = a.id
                /\ ~a.is_active => ~b.is_active
                /\ (a.is_active /\ ~b.is_active) => close_ballot(a.id)]_vars

\* A ballot is still active after its end_time, and votes were cast on it.
C15_Witness ==
    \E b \in ballots :
        b.is_active /\ now > TickOf(b.end_time) /\ votes # {}

\* the pairs register_voter is called with
RegPairs == VoterIds \X (BallotIds \cup {OtherBallotId})

\* C16: validate_eligibility(voter_id, ballot_id) is true exactly when a
\* register_voter call for that very pair has completed before: it is false
\* at the start, a register_voter step for the pair makes it true, only such
\* a step changes it, and it never goes back to false.
C16_EligibleIffRegistered ==
    /\ \A q \in RegPairs :
          eligible_voters = {} => ~validate_eligibility(q[1], q[2])
    /\ [][\A q \in RegPairs :
            /\ register_voter(q[1], q[2]) => validate_eligibility(q[1], q[2])'
            /\ validate_eligibility(q[1], q[2]) =>
                  validate_eligibility(q[1], q[2])'
            /\ (~validate_eligibility(q[1], q[2])
                  /\ validate_eligibility(q[1], q[2])') =>
                  register_voter(q[1], q[2])]_vars

\* A voter is eligible for the ballot they registered for and not for the
\* other one, after the ballot was closed with their vote on it.
C16_Witness ==
    \E v \in VoterIds, b \in ballots :
        /\ ~b.is_active
        /\ validate_eligibility(v, b.id)
        /\ ~validate_eligibility(v, OtherBallotId)
        /\ \E r \in votes : r.voter_id = v

\* the registry has one entry per pair
OneEntryPerPair ==
    \A r1, r2 \in eligible_voters :
        (r1.voter_id = r2.voter_id /\ r1.ballot_id = r2.ballot_id) => r1 = r2

\* C17: register_voter for a pair that is registered already succeeds and
\* leaves the registry as it is, the pair's registered_at included: the call
\* can be made whenever a first registration could, its step changes no
\* table, and every entry of the registry, once written, stays as written.
C17_RegisterIsIdempotent ==
    /\ []OneEntryPerPair
    /\ [](db_lock = Free =>
             \A v \in VoterIds, b \in BallotIds : ENABLED register_voter(v, b))
    /\ [][/\ \A r \in eligible_voters : r \in eligible_voters'
          /\ \A v \in VoterIds, b \in BallotIds :
                (validate_eligibility(v, b) /\ register_voter(v, b)) =>
                    db' = db]_vars

\* A pair registered at the first tick is still registered with that time
\* at the last tick, where register_voter has written another pair's entry.
C17_Witness ==
    \E r1, r2 \in eligible_voters :
        /\ r1.registered_at = IsoFormat(0)
        /\ r2.registered_at = IsoFormat(MaxTime)

\* C18: votes are append-only: a committed Vote stays in the store, with the
\* same id, voter_id, ballot_id, choice, timestamp and signature, over every
\* step of every operation.
C18_VotesAppendOnly == [][\A r \in votes : r \in votes']_vars

\* Two votes are stored at the last tick, on a ballot that has been closed.
C18_Witness ==
    /\ Cardinality(votes) = 2
    /\ now = MaxTime
    /\ \A b \in ballots : ~b.is_active

\* ---- tally

\* the labels a ballot declares
Declared(b) == {b.options[i] : i \in 1..Len(b.options)}

\* the committed votes on ballot b for the label
VotesFor(b, label) ==
    {r \in votes : r.ballot_id = b.id /\ r.choice = label}

RECURSIVE SumOver(_, _)
SumOver(labels, f) ==
    IF labels = {} THEN 0
    ELSE LET l == CHOOSE x \in labels : TRUE
         IN  f[l] + SumOver(labels \ {l}, f)

\* C19: tally(ballot_id) returns a count for every declared option, 0
\* included; each count is the number of committed votes on that ballot with
\* that choice, votes on other ballots not being counted; and total_votes is
\* the sum of the counts.
C19_TallyCounts ==
    \A b \in ballots :
        LET t == tally(b.id)
        IN  /\ DOMAIN t.counts = Declared(b)
            /\ \A l \in Declared(b) :
                  t.counts[l] = Cardinality(VotesFor(b, l))
            /\ t.total_votes = SumOver(Declared(b), t.counts)

\* A ballot has an option with no vote and one with a vote, and the other
\* ballot has two votes.
C19_Witness ==
    \E b1, b2 \in ballots :
        /\ b1.id # b2.id
        /\ \E l \in Declared(b1) : tally(b1.id).counts[l] = 0
        /\ tally(b1.id).total_votes = 1
        /\ tally(b2.id).total_votes = 2

\* the greatest count of tally t
MaxCount(t) ==
    CHOOSE m \in {t.counts[l] : l \in DOMAIN t.counts} :
        \A l \in DOMAIN t.counts : t.counts[l] <= m

\* C20: when there are votes, tally's winner is the option with the greatest
\* count, and of several options that share the greatest count the one
\* that comes first in the order the ballot declares its options.
C20_WinnerIsFirstOfTheBest ==
    \A b \in ballots :
        LET t == tally(b.id)
        IN  t.total_votes > 0 =>
               \E i \in 1..Len(b.options) :
                  /\ t.winner = b.options[i]
                  /\ t.counts[b.options[i]] = MaxCount(t)
                  /\ \A j \in 1..(i - 1) :
                        t.counts[b.options[j]] < MaxCount(t)

\* A ballot that declares Y before X has one vote for each, and Y wins; on
\* the other ballot the second option has both votes and wins.
C20_Witness ==
    \E b1, b2 \in ballots :
        /\ b1.options = <<<<"Y">>, <<"X">>>>
        /\ tally(b1.id).counts = [l \in Declared(b1) |-> 1]
        /\ tally(b1.id).winner = <<"Y">>
        /\ tally(b2.id).total_votes = 2
        /\ tally(b2.id).winner = b2.options[2]

\* C21: tally on an existing ballot with no committed vote returns
\* total_votes = 0, the percentage 0.0 for every option, and no winner.
C21_EmptyTally ==
    \A b \in ballots :
        (\A r \in votes : r.ballot_id # b.id) =>
            LET t == tally(b.id)
            IN  /\ t.total_votes = 0
                /\ DOMAIN t.percentages = Declared(b)
                /\ \A l \in Declared(b) : t.percentages[l] = 0
                /\ t.winner = None

\* A ballot has no vote while the other ballot has two.
C21_Witness ==
    \E b1, b2 \in ballots :
        /\ \A r \in votes : r.ballot_id # b1.id
        /\ Cardinality({r \in votes : r.ballot_id = b2.id}) = 2
        /\ now = MaxTime

\* C22: a tally that runs next to cast_vote calls counts every vote that was
\* committed on the ballot before it was called, counts no vote that is not
\* committed when it returns, and counts each vote once: for every option
\* the count lies between the votes for it committed at the call and those
\* committed at the return, and so does total_votes.
C22_TallyNextToCasts ==
    [][(tally_pc = "return" /\ tally_pc' = "done") =>
          LET at_return == {r \in votes' : r.ballot_id = tally_arg}
          IN  /\ Cardinality(tally_seen) <= tally_ret'.total_votes
              /\ tally_ret'.total_votes <= Cardinality(at_return)
              /\ \A l \in DOMAIN tally_ret'.counts :
                    /\ Cardinality({r \in tally_seen : r.choice = l})
                          <= tally_ret'.counts[l]
                    /\ tally_ret'.counts[l]
                          <= Cardinality({r \in at_return : r.choice = l})]_vars

\* A tally called when no vote was committed has counted one vote and is
\* about to return when two are committed.
C22_Witness ==
    /\ tally_pc = "return"
    /\ tally_seen = {}
    /\ tally_ret.total_votes = 1
    /\ Cardinality(votes) = 2

\* C23: with no operation between the two exports, summary.total_votes of
\* export(json) is the number of data rows, the header left out, of
\* export(csv), for every ballot whose votes were cast through cast_vote.
C23_JsonTotalIsCsvRows ==
    \A b \in ballots :
        export_results(b.id, "json").summary.total_votes
            = Len(export_results(b.id, "csv")) - 1

\* One ballot's csv has one data row and the other's has two.
C23_Witness ==
    \E b1, b2 \in ballots :
        /\ Len(export_results(b1.id, "csv")) = 2
        /\ Len(export_results(b2.id, "csv")) = 3

\* the committed votes on the ballot whose signature is not the one their
\* own fields give
Mismatching(ballot_id) ==
    {r \in votes :
        /\ r.ballot_id = ballot_id
        /\ r.signature # sha256_hexdigest(
                             r.voter_id \o <<":">> \o r.ballot_id \o <<":">>
                             \o r.choice \o <<":">> \o r.timestamp)}

\* C24: the verify command reports exactly the committed votes on the ballot
\* for which verify_vote is false, each one on a line of its own: every vote
\* with a mismatching signature is named, once, and no valid vote and no
\* vote of another ballot is named.
C24_VerifyReportsTheInvalid ==
    \A b \in ballots :
        LET out == cmd_verify(b.id)
        IN  /\ {out.lines[i] : i \in 1..Len(out.lines)}
                  = {<<r.id, r.voter_id>> : r \in Mismatching(b.id)}
            /\ Len(out.lines) = Cardinality(Mismatching(b.id))
            /\ out.exit = (IF Mismatching(b.id) = {} THEN 0 ELSE 1)
            /\ out.exit = 1 => out.count = Cardinality(Mismatching(b.id))

\* One ballot has two tampered votes; the other has a tampered and a valid
\* one.
C24_Witness ==
    \E b1, b2 \in ballots :
        /\ Len(cmd_verify(b1.id).lines) = 2
        /\ Len(cmd_verify(b2.id).lines) = 1
        /\ Len(SelectVotes(b2.id)) = 2

\* C25: close_ballot is idempotent: on a ballot that is closed already the
\* call succeeds, being possible whenever a first close is, and leaves
\* ballots, eligibility registry and votes as they are.
C25_CloseIsIdempotent ==
    /\ [](db_lock = Free => \A b \in BallotIds : ENABLED close_ballot(b))
    /\ [][\A b \in ballots :
            (~b.is_active /\ close_ballot(b.id)) => db' = db]_vars

\* A closed ballot with a voter registered and a vote on it, the write lock
\* being free for another close.
C25_Witness ==
    \E b \in ballots :
        /\ ~b.is_active
        /\ db_lock = Free
        /\ Cardinality(votes) = 1
        /\ Cardinality(eligible_voters) = 1

\* C26: the voting window is inclusive at both ends: when the other guards
\* hold, cast_vote is accepted exactly when start_time <= now <= end_time,
\* now = start_time and now = end_time included.
C26_WindowInclusive ==
    [][\A p \in Procs :
          (Completes(p) /\ BallotExists(p) /\ BallotActive(p)
             /\ ChoiceValid(p) /\ VoterEligible(p) /\ NotYetVoted(p)) =>
              (ret'[p] = Ok <=> (NotBeforeStart(p) /\ NotAfterEnd(p)))]_vars

\* C27: the options of every stored ballot are pairwise distinct labels.
C27_OptionsDistinct ==
    \A b \in ballots :
        \A i, j \in 1..Len(b.options) :
            i # j => b.options[i] # b.options[j]

\* C28: every stored ballot has start_time < end_time.
C28_StartBeforeEnd ==
    \A b \in ballots : TickOf(b.start_time) < TickOf(b.end_time)

\* C29: a ballot, once created, is never deleted, and its id, title,
\* description, options, start_time, end_time and created_at never change,
\* whatever operation takes a step; is_active is changed by close_ballot
\* steps only.
C29_BallotsAreFixed ==
    [][\A a \in ballots :
          \E b \in ballots' :
             /\ b.id = a.id
             /\ b = [a EXCEPT !.is_active = b.is_active]
             /\ b.is_active # a.is_active => close_ballot(a.id)]_vars

\* At the end of the clock a ballot has been closed, with two votes on it.
C29_Witness ==
    \E b \in ballots :
        /\ ~b.is_active
        /\ now = MaxTime
        /\ Cardinality({r \in votes : r.ballot_id = b.id}) = 2
        /\ \A p \in Procs : pc[p] = "done"

\* C30: every committed vote's timestamp lies inside its ballot's window:
\* for each vote v on ballot b, the instant v.timestamp is neither before
\* the instant b.start_time nor after the instant b.end_time.
C30_VotesInsideWindow ==
    \A r \in votes :
        \A b \in ballots :
            b.id = r.ballot_id =>
                /\ TickOf(b.start_time) <= TickOf(r.timestamp)
                /\ TickOf(r.timestamp) <= TickOf(b.end_time)

\* ------------------------------------------- the writers, as calls that wait
\* create_ballot, register_voter and close_ballot each run one writing
\* statement and commit.  Called next to other callers they wait for the
\* write lock; get_db (line 67) opens the connection with sqlite3's default
\* timeout, so a statement that has waited five seconds for the lock raises
\* sqlite3.OperationalError instead of waiting on.
Locked == "sqlite3.OperationalError: database is locked"


\* the caller p invokes the writing operation op
call_writer(p, op, ballot_id, voter_id) ==
    /\ pc[p] \in {"idle", "done"}
    /\ pc' = [pc EXCEPT ![p] = op]
    /\ arg' = [arg EXCEPT ![p] = [ballot_id |-> ballot_id,
                                  voter_id |-> voter_id,
                                  choice |-> <<>>]]
    /\ ret' = [ret EXCEPT ![p] = "none"]
    /\ UNCHANGED <<db, now, db_lock, ballot, now_str, vote, last, tally_locals,
            permit_tracker, public_records>>

\* lines 133-149, by a caller that has the lock to itself
create_ballot_write(p, title, description, options, start_time, end_time) ==
    /\ pc[p] = "create_ballot"
    /\ db_lock = Free
    /\ Cardinality(ballots) < Len(BallotIdPool)
    /\ ballots' = ballots \cup
          {[id |-> BallotIdPool[Cardinality(ballots) + 1],
            title |-> title,
            description |-> description,
            options |-> options,
            start_time |-> start_time,
            end_time |-> end_time,
            is_active |-> TRUE,
            created_at |-> IsoFormat(now)]}
    /\ last' = Ok
    /\ Raise(p, Ok)
    /\ UNCHANGED <<eligible_voters, votes, now, db_lock, tally_locals,
            permit_tracker, public_records>>

\* lines 154-162
register_voter_write(p) ==
    /\ pc[p] = "register_voter"
    /\ db_lock = Free
    /\ IF validate_eligibility(arg[p].voter_id, arg[p].ballot_id)
       THEN UNCHANGED eligible_voters
       ELSE eligible_voters' = eligible_voters \cup
               {[voter_id |-> arg[p].voter_id, ballot_id |-> arg[p].ballot_id,
                 registered_at |-> IsoFormat(now)]}
    /\ Raise(p, Ok)
    /\ UNCHANGED <<ballots, votes, now, db_lock, last, tally_locals,
            permit_tracker, public_records>>

\* lines 289-293
close_ballot_write(p) ==
    /\ pc[p] = "close_ballot"
    /\ db_lock = Free
    /\ ballots' = {IF r.id = arg[p].ballot_id
                   THEN [r EXCEPT !.is_active = FALSE]
                   ELSE r : r \in ballots}
    /\ Raise(p, Ok)
    /\ UNCHANGED <<eligible_voters, votes, now, db_lock, last, tally_locals,
            permit_tracker, public_records>>

\* mutant: a connection without a busy timeout waits until the lock is free
db_busy_waits_on(p) ==
    /\ FALSE
    /\ UNCHANGED vars

\* The writing statement of caller p (the INSERT of cast_vote, line 225, or
\* the statement of one of the writers) has waited for the lock in vain: it
\* raises, nothing is written, and the caller's connection holds no lock.
db_busy(p) ==
    /\ pc[p] \in {"create_ballot", "register_voter", "close_ballot"} \cup {"insert"}
    /\ db_lock # Free
    /\ Raise(p, Locked)
    /\ UNCHANGED <<db, now, db_lock, last, tally_locals,
            permit_tracker, public_records>>


\* Concurrent callers of every operation, next to one call of tally.  The
\* clock stands still inside the window of the ballot, which is the whole
\* range of the clock; the casts are of the first option by the first voter.
LiveVoter == <<"v">>
LiveWrite(p) ==
    \E o \in ValidOptionLists :
        create_ballot_write(p, Title, Description, o, IsoFormat(0),
                            IsoFormat(MaxTime))

NextLive ==
    \/ /\ Cardinality(ballots) + Cardinality({p \in Procs : pc[p] = "create_ballot"}) < MaxBallots
       /\ \E p \in Procs : call_writer(p, "create_ballot", <<>>, <<>>)
    \/ \E p \in Procs : LiveWrite(p)
    \/ \E p \in Procs, b \in BallotIds :
          call_writer(p, "register_voter", b, LiveVoter)
    \/ \E p \in Procs : register_voter_write(p)
    \/ \E p \in Procs, b \in BallotIds : call_writer(p, "close_ballot", b, <<>>)
    \/ \E p \in Procs : close_ballot_write(p)
    \/ \E p \in Procs, b \in BallotIds, o \in ValidOptionLists :
          call_cast_vote(p, b, LiveVoter, o[1])
    \/ \E p \in Procs : cast_vote_begin(p)
    \/ \E p \in Procs : cast_vote_eligibility(p)
    \/ \E p \in Procs : cast_vote_dupe(p)
    \/ \E p \in Procs : cast_vote_insert(p)
    \/ \E p \in Procs : cast_vote_commit(p)
    \/ \E p \in Procs : db_busy(p)
    \/ ConnectionFinalized
    \/ \E b \in BallotIds : call_tally(b)
    \/ tally_select_ballot
    \/ tally_select_votes
    \/ tally_return

\* the statements of caller p's call: a started call is a running thread
\* or process, which the operating system goes on scheduling
CallerStep(p) ==
    \/ cast_vote_begin(p)
    \/ cast_vote_eligibility(p)
    \/ cast_vote_dupe(p)
    \/ cast_vote_insert(p)
    \/ cast_vote_commit(p)
    \/ LiveWrite(p)
    \/ register_voter_write(p)
    \/ close_ballot_write(p)
    \/ db_busy(p)

TallyStep == tally_select_ballot \/ tally_select_votes \/ tally_return

\* No fairness for the clock, for new calls, or for the garbage collector
\* that finalises a leaked connection.
SpecLive ==
    /\ Init
    /\ [][NextLive]_vars
    /\ \A p \in Procs : WF_vars(CallerStep(p))
    /\ WF_vars(TallyStep)

\* C31: every invoked cast_vote, create_ballot, register_voter, close_ballot
\* and tally call eventually completes, with its result or with an error,
\* whatever the other callers do.
C31_CallsComplete ==
    /\ \A p \in Procs :
          (pc[p] \notin {"idle", "done"}) ~> (pc[p] = "done" /\ ret[p] # "none")
    /\ (tally_pc \notin {"idle", "done"}) ~> (tally_pc = "done" /\ tally_ret # NoResult)

\* A writer has given up waiting for a lock that a failed cast_vote left
\* behind, and the call of tally has returned.
C31_Witness ==
    /\ db_lock = Leaked
    /\ \E p \in Procs : pc[p] = "done" /\ ret[p] = Locked
    /\ tally_pc = "done"

\* C32: once close_ballot(b) has completed, no further vote for b is ever
\* committed, not even by a cast_vote call that read the ballot as active
\* before the close completed.
C32_NoVoteAfterClose ==
    [][\A b \in ballots :
          ~b.is_active =>
              {r \in votes' : r.ballot_id = b.id}
                  = {r \in votes : r.ballot_id = b.id}]_vars

\* ----------------------------------------- export_results, step by step
\* A call of export_results next to the callers of cast_vote.  It calls
\* tally, which reads the ballot and then the choices through one
\* connection, and then reads the vote rows through a connection of its own.

\* lines 275-283: what the call returns (the document, or the text of the
\* csv as its rows) or raises, from the summary and the vote rows it has read
export_output(summary, rows, fmt) ==
    IF fmt = "json" THEN [summary |-> summary, votes |-> rows]
    ELSE IF fmt = "csv"
         THEN [csv |-> <<CsvHeader>> \o
                       [i \in 1..Len(rows) |-> CsvRow(rows[i])]]
    ELSE [error |-> UnknownFormat]

call_export_results(ballot_id, fmt) ==
    /\ tally_pc = "idle"
    /\ tally_pc' = "export_ballot"
    /\ tally_arg' = [ballot_id |-> ballot_id, fmt |-> fmt]
    /\ UNCHANGED <<db, now, db_lock, locals, last, tally_ballot, tally_ret,
                   tally_seen,
                   permit_tracker, public_records>>

\* line 267, tally's lines 235-238
export_tally_ballot ==
    /\ tally_pc = "export_ballot"
    /\ IF BallotRows(tally_arg.ballot_id) = {}
       THEN /\ tally_ret' = [error |-> NotFound]
            /\ tally_pc' = "done"
            /\ tally_arg' = NoStr
            /\ UNCHANGED tally_ballot
       ELSE /\ tally_ballot' = CHOOSE r \in BallotRows(tally_arg.ballot_id) : TRUE
            /\ tally_pc' = "export_counts"
            /\ UNCHANGED <<tally_arg, tally_ret>>
    /\ UNCHANGED <<db, now, db_lock, locals, last, tally_seen,
            permit_tracker, public_records>>

\* line 267, tally's lines 240-261: the summary
export_tally_votes ==
    /\ tally_pc = "export_counts"
    /\ tally_ret' = tally_result(tally_ballot, SelectChoices(tally_arg.ballot_id))
    /\ tally_pc' = "export_votes"
    /\ UNCHANGED <<db, now, db_lock, locals, last, tally_arg, tally_ballot,
                   tally_seen,
                   permit_tracker, public_records>>

\* mutant: the rows that have been exported are deleted from the table
export_select_votes_consuming ==
    /\ tally_pc = "export_votes"
    /\ tally_ret' = export_output(tally_ret, SelectVotes(tally_arg.ballot_id),
                                  tally_arg.fmt)
    /\ votes' = {r \in votes : r.ballot_id # tally_arg.ballot_id}
    /\ tally_pc' = "done"
    /\ tally_arg' = NoStr
    /\ tally_ballot' = NoBallot
    /\ UNCHANGED <<ballots, eligible_voters, now, db_lock, locals, last,
                   tally_seen,
                   permit_tracker, public_records>>

\* lines 268-283: the vote rows are read, and the output is made
export_select_votes ==
    /\ tally_pc = "export_votes"
    /\ tally_ret' = export_output(tally_ret, SelectVotes(tally_arg.ballot_id),
                                  tally_arg.fmt)
    /\ tally_pc' = "done"
    /\ tally_arg' = NoStr
    /\ tally_ballot' = NoBallot
    /\ UNCHANGED <<db, now, db_lock, locals, last, tally_seen,
            permit_tracker, public_records>>

\* One call of export_results next to the concurrent callers of cast_vote,
\* who vote for the first option.
NextExport ==
    \/ Tick
    \/ /\ now <= LastSetupTick
       /\ Cardinality(ballots) < MaxBallots
       /\ \E o \in ValidOptionLists, s \in StartTicks, e \in EndTicks :
             create_ballot(Title, Description, o, IsoFormat(s), IsoFormat(e))
    \/ /\ now <= LastSetupTick
       /\ \E v \in VoterIds, b \in BallotIds : register_voter(v, b)
    \/ \E p \in Procs, b \in BallotIds, v \in VoterIds, o \in ValidOptionLists :
          call_cast_vote(p, b, v, o[1])
    \/ \E p \in Procs : cast_vote_begin(p)
    \/ \E p \in Procs : cast_vote_eligibility(p)
    \/ \E p \in Procs : cast_vote_dupe(p)
    \/ \E p \in Procs : cast_vote_insert(p)
    \/ \E p \in Procs : cast_vote_commit(p)
    \/ ConnectionFinalized
    \/ \E b \in BallotIds, f \in {"json", "csv", "xml"} : call_export_results(b, f)
    \/ export_tally_ballot
    \/ export_tally_votes
    \/ export_select_votes

SpecExport == Init /\ [][NextExport]_vars

\* C33: in the document a call of export_results(b, "json") returns,
\* summary.total_votes is the length of the votes list, also when calls of
\* cast_vote for the ballot run next to the export.
C33_ExportTotalIsListLength ==
    [][(/\ tally_pc = "export_votes"
        /\ tally_pc' = "done"
        /\ tally_arg.fmt = "json") =>
          tally_ret'.summary.total_votes = Len(tally_ret'.votes)]_vars

\* ------------------------------------------------- the other read calls
\* get_ballot, list_ballots, validate_eligibility and the verify command
\* each read with one SELECT; the reader's result is kept in tally_ret.

\* None where the caller expects a dict
NoDict == [None |-> TRUE]

\* lines 310-320: None, or the row as a dict
get_ballot(ballot_id) ==
    IF BallotRows(ballot_id) = {} THEN NoDict
    ELSE CHOOSE r \in BallotRows(ballot_id) : TRUE

\* lines 296-307: SELECT * FROM ballots ORDER BY created_at DESC; rows with
\* the same created_at come in the order of their insertion
list_ballots ==
    LET ById(i) == CHOOSE r \in ballots : r.id = BallotIdPool[i]
        Before(i, j) ==
            \/ StrLess(ById(j).created_at, ById(i).created_at)
            \/ ById(j).created_at = ById(i).created_at /\ i < j
        n == Cardinality(ballots)
        Rank(i) == Cardinality({j \in 1..n : Before(j, i)}) + 1
    IN  [k \in 1..n |-> ById(CHOOSE i \in 1..n : Rank(i) = k)]

Reader == tally_pc \in {"idle", "done"}

call_get_ballot(ballot_id) ==
    /\ Reader
    /\ tally_ret' = [get_ballot |-> get_ballot(ballot_id)]
    /\ UNCHANGED <<db, now, db_lock, locals, last, tally_pc, tally_arg,
                   tally_ballot, tally_seen,
                   permit_tracker, public_records>>

call_list_ballots ==
    /\ Reader
    /\ tally_ret' = [list_ballots |-> list_ballots]
    /\ UNCHANGED <<db, now, db_lock, locals, last, tally_pc, tally_arg,
                   tally_ballot, tally_seen,
                   permit_tracker, public_records>>

call_validate_eligibility(voter_id, ballot_id) ==
    /\ Reader
    /\ tally_ret' = [validate_eligibility |->
                        validate_eligibility(voter_id, ballot_id)]
    /\ UNCHANGED <<db, now, db_lock, locals, last, tally_pc, tally_arg,
                   tally_ballot, tally_seen,
                   permit_tracker, public_records>>

call_cmd_verify(ballot_id) ==
    /\ Reader
    /\ tally_ret' = [cmd_verify |-> cmd_verify(ballot_id)]
    /\ UNCHANGED <<db, now, db_lock, locals, last, tally_pc, tally_arg,
                   tally_ballot, tally_seen,
                   permit_tracker, public_records>>

\* One caller of the writing operations, one operation at a time, and a
\* reader next to it; the reader names stored ballots and an id that no
\* ballot has.  Every cast is for the first option, and at the end of the
\* clock the stored votes are tampered with.
ReadBallotIds == BallotIds \cup {OtherBallotId}

NextRead ==
    \/ Tick
    \/ /\ Quiet
       /\ now <= LastSetupTick
       /\ Cardinality(ballots) < MaxBallots
       /\ \E o \in ValidOptionLists, s \in StartTicks, e \in EndTicks :
             create_ballot(Title, Description, o, IsoFormat(s), IsoFormat(e))
    \/ /\ Quiet
       /\ now <= LastSetupTick
       /\ \E v \in VoterIds, b \in BallotIds : register_voter(v, b)
    \/ /\ Quiet
       /\ \E b \in BallotIds : close_ballot(b)
    \/ /\ Quiet
       /\ \E b \in BallotIds, v \in VoterIds, o \in ValidOptionLists :
             call_cast_vote(1, b, v, o[1])
    \/ cast_vote_begin(1)
    \/ cast_vote_eligibility(1)
    \/ cast_vote_dupe(1)
    \/ cast_vote_insert(1)
    \/ cast_vote_commit(1)
    \/ /\ Quiet
       /\ now = MaxTime
       /\ Tamper
    \/ \E b \in ReadBallotIds : call_tally(b)
    \/ tally_select_ballot
    \/ tally_select_votes
    \/ tally_return
    \/ \E b \in ReadBallotIds, f \in {"json", "csv", "xml"} : call_export_results(b, f)
    \/ export_tally_ballot
    \/ export_tally_votes
    \/ export_select_votes
    \/ \E b \in ReadBallotIds : call_get_ballot(b)
    \/ call_list_ballots
    \/ \E v \in VoterIds, b \in ReadBallotIds : call_validate_eligibility(v, b)
    \/ \E b \in ReadBallotIds : call_cmd_verify(b)

SpecRead == Init /\ [][NextRead]_vars

\* C34: a step of one of the read operations (tally, export_results,
\* get_ballot, list_ballots, validate_eligibility, verify), that is, a step
\* in which the reader moves on or gets its result or its error, leaves the
\* ballots, the eligibility registry and the votes as they were.
C34_ReadsChangeNothing ==
    [][(tally_pc' # tally_pc \/ tally_ret' # tally_ret \/ tally_arg' # tally_arg)
          => UNCHANGED db]_vars

\* An export in an unknown format has read a ballot with two votes, one of
\* them tampered with, and has failed.
C34_Witness ==
    /\ tally_pc = "done"
    /\ tally_ret = [error |-> UnknownFormat]
    /\ Cardinality(votes) = 2
    /\ \E r \in votes : ~verify_vote(r)

\* ===================================================== permit_tracker.py
\* The permit lifecycle tracker, a program with a database of its own.
\* approve, deny, expire_permit and expire_overdue read, and then write
\* through the same connection; the writing statements, the event insert and
\* the commit are one transaction.  Callers of different calls interleave
\* between a call's read, its transaction and its last read.
MaxPermits == 2     \* apply calls that store a permit
MaxEvents == 5      \* calls are made while the event log is shorter
Day == 2            \* timedelta(days=1), in ticks

PermitIdPool == <<<<"p", "1">>, <<"p", "2">>, <<"p", "3">>, <<"p", "4">>>>
PermitIds == {PermitIdPool[i] : i \in 1..MaxPermits}
\* an id that no stored permit has
OtherPermitId == PermitIdPool[MaxPermits + 1]
\* one of the PERMIT_TYPES
PERMIT_TYPES == {"building"}
ValidityDays == {0, 1}

PermitNotFound == "ValueError: Permit not found."

\* SELECT * FROM permits WHERE id=?
PermitRows(permit_id) == {r \in permits : r.id = permit_id}

\* lines 104-111: the event log with one more row
_log_event(permit_id, event_type, actor, message) ==
    Append(permit_events,
           [id |-> <<"e", Len(permit_events) + 1>>,
            permit_id |-> permit_id,
            event_type |-> event_type,
            actor |-> actor,
            message |-> message,
            occurred_at |-> IsoFormat(now)])

PermitReturn(p, r) ==
    /\ permit_ret' = [permit_ret EXCEPT ![p] = r]
    /\ permit_pc' = [permit_pc EXCEPT ![p] = "done"]
    /\ permit_arg' = [permit_arg EXCEPT ![p] = [op |-> "none"]]

\* lines 115-146; validity_days is not used
apply(p, permit_type, validity_days) ==
    /\ permit_pc[p] \in {"idle", "done"}
    /\ IF permit_type \notin PERMIT_TYPES
       THEN /\ PermitReturn(p, [error |-> "ValueError: Unknown permit type."])
            /\ UNCHANGED <<permits, permit_events>>
       ELSE LET permit == [id |-> PermitIdPool[Cardinality(permits) + 1],
                           permit_type |-> permit_type,
                           applicant |-> <<"A">>,
                           address |-> <<"1">>,
                           description |-> <<>>,
                           status |-> "pending",
                           issued_at |-> None,
                           expires_at |-> None,
                           created_at |-> IsoFormat(now),
                           updated_at |-> IsoFormat(now),
                           notes |-> <<>>]
            IN  /\ Cardinality(permits) < Len(PermitIdPool)
                /\ permits' = permits \cup {permit}
                /\ permit_events' =
                      _log_event(permit.id, "applied", <<"A">>,
                                 <<"Applied for permit">>)
                /\ PermitReturn(p, permit)
    /\ UNCHANGED <<db, db_lock, locals, last, tally_locals, now,
                   public_records>>

\* the caller p invokes approve, deny, expire_permit or expire_overdue
call_permit(p, op, permit_id, validity_days) ==
    /\ permit_pc[p] \in {"idle", "done"}
    /\ permit_pc' = [permit_pc EXCEPT ![p] = op]
    /\ permit_arg' = [permit_arg EXCEPT ![p] =
                         [op |-> op, permit_id |-> permit_id,
                          validity_days |-> validity_days]]
    /\ permit_ret' = [permit_ret EXCEPT ![p] = NoResult]
    /\ UNCHANGED <<db, db_lock, locals, last, tally_locals, now, permits,
                   permit_events, public_records>>

\* mutant: approve does not look at the status
approve_select_any_status(p) ==
    /\ permit_pc[p] = "approve"
    /\ IF PermitRows(permit_arg[p].permit_id) = {}
       THEN PermitReturn(p, [error |-> PermitNotFound])
       ELSE /\ permit_pc' = [permit_pc EXCEPT ![p] = "approve_update"]
            /\ UNCHANGED <<permit_arg, permit_ret>>
    /\ UNCHANGED <<db, db_lock, locals, last, tally_locals, now, permits,
                   permit_events, public_records>>

\* lines 157-164
approve_select(p) ==
    /\ permit_pc[p] = "approve"
    /\ LET rows == PermitRows(permit_arg[p].permit_id)
       IN  IF rows = {} THEN PermitReturn(p, [error |-> PermitNotFound])
           ELSE IF (CHOOSE r \in rows : TRUE).status # "pending"
           THEN PermitReturn(p, [error |-> "ValueError: Permit is not pending."])
           ELSE /\ permit_pc' = [permit_pc EXCEPT ![p] = "approve_update"]
                /\ UNCHANGED <<permit_arg, permit_ret>>
    /\ UNCHANGED <<db, db_lock, locals, last, tally_locals, now, permits,
                   permit_events, public_records>>

\* lines 165-173
approve_update(p) ==
    /\ permit_pc[p] = "approve_update"
    /\ permits' =
          {IF r.id = permit_arg[p].permit_id
           THEN [r EXCEPT !.status = "approved",
                          !.issued_at = IsoFormat(now),
                          !.expires_at =
                              IsoFormat(now + permit_arg[p].validity_days * Day),
                          !.updated_at = IsoFormat(now),
                          !.notes = <<"n">>]
           ELSE r : r \in permits}
    /\ permit_events' =
          _log_event(permit_arg[p].permit_id, "approved", <<"admin">>, <<"n">>)
    /\ permit_pc' = [permit_pc EXCEPT ![p] = "return"]
    /\ UNCHANGED <<db, db_lock, locals, last, tally_locals, now, permit_arg,
                   permit_ret, public_records>>

\* lines 186-193
deny_select(p) ==
    /\ permit_pc[p] = "deny"
    /\ LET rows == PermitRows(permit_arg[p].permit_id)
       IN  IF rows = {} THEN PermitReturn(p, [error |-> PermitNotFound])
           ELSE IF (CHOOSE r \in rows : TRUE).status # "pending"
           THEN PermitReturn(p, [error |-> "ValueError: Permit cannot be denied."])
           ELSE /\ permit_pc' = [permit_pc EXCEPT ![p] = "deny_update"]
                /\ UNCHANGED <<permit_arg, permit_ret>>
    /\ UNCHANGED <<db, db_lock, locals, last, tally_locals, now, permits,
                   permit_events, public_records>>

\* lines 194-200
deny_update(p) ==
    /\ permit_pc[p] = "deny_update"
    /\ permits' =
          {IF r.id = permit_arg[p].permit_id
           THEN [r EXCEPT !.status = "denied",
                          !.updated_at = IsoFormat(now),
                          !.notes = <<"r">>]
           ELSE r : r \in permits}
    /\ permit_events' =
          _log_event(permit_arg[p].permit_id, "denied", <<"admin">>, <<"r">>)
    /\ permit_pc' = [permit_pc EXCEPT ![p] = "return"]
    /\ UNCHANGED <<db, db_lock, locals, last, tally_locals, now, permit_arg,
                   permit_ret, public_records>>

\* lines 208-212: the status of the permit is not looked at
expire_permit_select(p) ==
    /\ permit_pc[p] = "expire_permit"
    /\ IF PermitRows(permit_arg[p].permit_id) = {}
       THEN PermitReturn(p, [error |-> PermitNotFound])
       ELSE /\ permit_pc' = [permit_pc EXCEPT ![p] = "expire_permit_update"]
            /\ UNCHANGED <<permit_arg, permit_ret>>
    /\ UNCHANGED <<db, db_lock, locals, last, tally_locals, now, permits,
                   permit_events, public_records>>

\* lines 213-219
expire_permit_update(p) ==
    /\ permit_pc[p] = "expire_permit_update"
    /\ permits' =
          {IF r.id = permit_arg[p].permit_id
           THEN [r EXCEPT !.status = "expired", !.updated_at = IsoFormat(now)]
           ELSE r : r \in permits}
    /\ permit_events' =
          _log_event(permit_arg[p].permit_id, "expired", <<"system">>,
                     <<"Permit expired">>)
    /\ permit_pc' = [permit_pc EXCEPT ![p] = "return"]
    /\ UNCHANGED <<db, db_lock, locals, last, tally_locals, now, permit_arg,
                   permit_ret, public_records>>

\* lines 174-176, 201-203, 220-222: the row is read again and returned
permit_return(p) ==
    /\ permit_pc[p] = "return"
    /\ PermitReturn(p, CHOOSE r \in PermitRows(permit_arg[p].permit_id) : TRUE)
    /\ UNCHANGED <<db, db_lock, locals, last, tally_locals, now, permits,
                   permit_events, public_records>>

\* the ids of a set of permits, in the order of their insertion
PermitIdsInOrder(rows) ==
    LET upto[i \in 0..Len(PermitIdPool)] ==
           IF i = 0 THEN <<>>
           ELSE IF \E r \in rows : r.id = PermitIdPool[i]
                THEN Append(upto[i - 1], PermitIdPool[i])
                ELSE upto[i - 1]
    IN  upto[Len(PermitIdPool)]

\* mutant: expires_at <= ?
OverdueAtOrBefore(now_s) ==
    {r \in permits :
        /\ r.status = "approved"
        /\ r.expires_at # None
        /\ (StrLess(r.expires_at, now_s) \/ r.expires_at = now_s)}

\* lines 230-233: SELECT id FROM permits WHERE status='approved' AND
\* expires_at IS NOT NULL AND expires_at < ?  (a comparison of the texts)
Overdue(now_s) ==
    {r \in permits :
        /\ r.status = "approved"
        /\ r.expires_at # None
        /\ StrLess(r.expires_at, now_s)}

\* lines 229-234
expire_overdue_select(p) ==
    /\ permit_pc[p] = "expire_overdue"
    /\ permit_arg' = [permit_arg EXCEPT ![p] =
                         [op |-> "expire_overdue",
                          now |-> IsoFormat(now),
                          expired_ids |->
                              PermitIdsInOrder(Overdue(IsoFormat(now)))]]
    /\ permit_pc' = [permit_pc EXCEPT ![p] = "expire_overdue_update"]
    /\ UNCHANGED <<db, db_lock, locals, last, tally_locals, now, permits,
                   permit_events, permit_ret, public_records>>

RECURSIVE log_auto_expired(_, _)
log_auto_expired(events, ids) ==
    IF ids = <<>> THEN events
    ELSE log_auto_expired(
             Append(events,
                    [id |-> <<"e", Len(events) + 1>>,
                     permit_id |-> Head(ids),
                     event_type |-> "auto_expired",
                     actor |-> <<"system">>,
                     message |-> <<"Auto-expired by system sweep">>,
                     occurred_at |-> IsoFormat(now)]),
             Tail(ids))

\* lines 235-242
expire_overdue_update(p) ==
    /\ permit_pc[p] = "expire_overdue_update"
    /\ LET ids == permit_arg[p].expired_ids
       IN  /\ permits' =
                 {IF \E i \in 1..Len(ids) : ids[i] = r.id
                  THEN [r EXCEPT !.status = "expired",
                                 !.updated_at = permit_arg[p].now]
                  ELSE r : r \in permits}
           /\ permit_events' = log_auto_expired(permit_events, ids)
           /\ PermitReturn(p, [expired_ids |-> ids])
    /\ UNCHANGED <<db, db_lock, locals, last, tally_locals, now,
                   public_records>>

PermitQuiet == \A p \in Procs : permit_pc[p] \in {"idle", "done"}

\* One caller, one call at a time.
NextPermitSeq ==
    \/ Tick
    \/ /\ PermitQuiet
       /\ Len(permit_events) < MaxEvents
       /\ \E t \in (PERMIT_TYPES \cup {"unicorn_license"}), d \in ValidityDays :
             /\ t \in PERMIT_TYPES => Cardinality(permits) < MaxPermits
             /\ apply(1, t, d)
    \/ /\ PermitQuiet
       /\ Len(permit_events) < MaxEvents
       /\ \E i \in PermitIds \cup {OtherPermitId}, d \in ValidityDays :
             call_permit(1, "approve", i, d)
    \/ /\ PermitQuiet
       /\ Len(permit_events) < MaxEvents
       /\ \E i \in PermitIds \cup {OtherPermitId} :
             \/ call_permit(1, "deny", i, 0)
             \/ call_permit(1, "expire_permit", i, 0)
    \/ /\ PermitQuiet
       /\ Len(permit_events) < MaxEvents
       /\ call_permit(1, "expire_overdue", <<>>, 0)
    \/ approve_select(1)
    \/ approve_update(1)
    \/ deny_select(1)
    \/ deny_update(1)
    \/ expire_permit_select(1)
    \/ expire_permit_update(1)
    \/ permit_return(1)
    \/ expire_overdue_select(1)
    \/ expire_overdue_update(1)

SpecPermitSeq == Init /\ [][NextPermitSeq]_vars

\* Concurrent callers, on up to MaxRacePermits permits.
MaxRacePermits == 1
RacePermitIds == {PermitIdPool[i] : i \in 1..MaxRacePermits}

NextPermit ==
    \/ Tick
    \/ /\ Len(permit_events) < MaxEvents
       /\ Cardinality(permits) < MaxRacePermits
       /\ \E p \in Procs, t \in PERMIT_TYPES, d \in ValidityDays : apply(p, t, d)
    \/ /\ Len(permit_events) < MaxEvents
       /\ \E p \in Procs, i \in RacePermitIds, d \in ValidityDays :
             call_permit(p, "approve", i, d)
    \/ /\ Len(permit_events) < MaxEvents
       /\ \E p \in Procs, i \in RacePermitIds :
             \/ call_permit(p, "deny", i, 0)
             \/ call_permit(p, "expire_permit", i, 0)
    \/ /\ Len(permit_events) < MaxEvents
       /\ \E p \in Procs : call_permit(p, "expire_overdue", <<>>, 0)
    \/ \E p \in Procs : approve_select(p)
    \/ \E p \in Procs : approve_update(p)
    \/ \E p \in Procs : deny_select(p)
    \/ \E p \in Procs : deny_update(p)
    \/ \E p \in Procs : expire_permit_select(p)
    \/ \E p \in Procs : expire_permit_update(p)
    \/ \E p \in Procs : permit_return(p)
    \/ \E p \in Procs : expire_overdue_select(p)
    \/ \E p \in Procs : expire_overdue_update(p)

SpecPermit == Init /\ [][NextPermit]_vars

\* ===================================================== public_records.py
\* The public records store, a program with a database of its own; one
\* caller, one call at a time.  A text is a sequence of words.
MaxDocs == 2        \* create_document calls that store a document
MaxVersion == 3     \* update_document is called on versions below this

DocIdPool == <<<<"d", "1">>, <<"d", "2">>, <<"d", "3">>, <<"d", "4">>>>
DocIds == {DocIdPool[i] : i \in 1..MaxDocs}
\* an id that no stored document has
OtherDocId == DocIdPool[MaxDocs + 1]
\* two of the VALID_CATEGORIES
VALID_CATEGORIES == {"notice", "budget"}
\* category=None
NoCategory == ""
Titles == {<<"red">>, <<"blue">>}
\* a query the full-text index cannot parse
BadQuery == "\""

DocumentNotFound == "ValueError: Document not found."

\* SELECT * FROM documents WHERE id=?
DocumentRows(doc_id) == {r \in documents : r.id = doc_id}
Document(doc_id) == CHOOSE r \in DocumentRows(doc_id) : TRUE

\* lines 142-172; the trigger documents_ai (lines 109-112) puts the texts of
\* the new row into the full-text index
create_document(title, category, body, is_public) ==
    /\ IF category \notin VALID_CATEGORIES
       THEN /\ records_ret' = [error |-> "ValueError: Unknown category."]
            /\ UNCHANGED <<documents, documents_fts>>
       ELSE LET doc == [id |-> DocIdPool[Cardinality(documents) + 1],
                        title |-> title,
                        category |-> category,
                        body |-> body,
                        tags |-> <<>>,
                        author |-> <<"u">>,
                        created_at |-> IsoFormat(now),
                        updated_at |-> IsoFormat(now),
                        is_public |-> is_public,
                        version |-> 1]
            IN  /\ Cardinality(documents) < Len(DocIdPool)
                /\ documents' = documents \cup {doc}
                /\ documents_fts' = documents_fts \cup
                      {[id |-> doc.id, title |-> title, body |-> body,
                        tags |-> <<>>]}
                /\ records_ret' = [create_document |-> doc]
    /\ UNCHANGED <<db, db_lock, locals, last, tally_locals, now,
                   permit_tracker, document_revisions, updates_done>>

\* lines 175-189
publish(doc_id) ==
    /\ IF DocumentRows(doc_id) = {}
       THEN /\ records_ret' = [error |-> DocumentNotFound]
            /\ UNCHANGED documents
       ELSE LET updated == [Document(doc_id) EXCEPT
                               !.is_public = TRUE,
                               !.updated_at = IsoFormat(now)]
            IN  /\ documents' = (documents \ DocumentRows(doc_id)) \cup {updated}
                /\ records_ret' = [publish |-> updated]
    /\ UNCHANGED <<db, db_lock, locals, last, tally_locals, now,
                   permit_tracker, documents_fts, document_revisions,
                   updates_done>>

\* lines 192-206
retract(doc_id) ==
    /\ IF DocumentRows(doc_id) = {}
       THEN /\ records_ret' = [error |-> DocumentNotFound]
            /\ UNCHANGED documents
       ELSE LET updated == [Document(doc_id) EXCEPT
                               !.is_public = FALSE,
                               !.updated_at = IsoFormat(now)]
            IN  /\ documents' = (documents \ DocumentRows(doc_id)) \cup {updated}
                /\ records_ret' = [retract |-> updated]
    /\ UNCHANGED <<db, db_lock, locals, last, tally_locals, now,
                   permit_tracker, documents_fts, document_revisions,
                   updates_done>>

\* mutant: the revision archived is the one the update writes
update_document_archiving_new(doc_id, title, body) ==
    /\ IF DocumentRows(doc_id) = {}
       THEN /\ records_ret' = [error |-> DocumentNotFound]
            /\ UNCHANGED <<documents, document_revisions, updates_done>>
       ELSE LET old == Document(doc_id)
                updated == [old EXCEPT
                               !.title = IF title # None THEN title ELSE @,
                               !.body = IF body # None THEN body ELSE @,
                               !.updated_at = IsoFormat(now),
                               !.version = old.version + 1]
            IN  /\ document_revisions' = document_revisions \cup
                      {[id |-> old.id, version |-> updated.version,
                        title |-> updated.title, body |-> updated.body,
                        edited_by |-> <<"system">>,
                        edited_at |-> IsoFormat(now)]}
                /\ documents' = (documents \ {old}) \cup {updated}
                /\ records_ret' = [update_document |-> updated]
                /\ updates_done' = Append(updates_done, doc_id)
    /\ UNCHANGED <<db, db_lock, locals, last, tally_locals, now,
                   permit_tracker, documents_fts>>

\* lines 209-242.  INSERT OR IGNORE: a revision whose key (id, version) is
\* present is left as it is.  No trigger brings the new texts into the
\* full-text index.
update_document(doc_id, title, body) ==
    /\ IF DocumentRows(doc_id) = {}
       THEN /\ records_ret' = [error |-> DocumentNotFound]
            /\ UNCHANGED <<documents, document_revisions, updates_done>>
       ELSE LET old == Document(doc_id)
                updated == [old EXCEPT
                               !.title = IF title # None THEN title ELSE @,
                               !.body = IF body # None THEN body ELSE @,
                               !.updated_at = IsoFormat(now),
                               !.version = old.version + 1]
            IN  /\ document_revisions' =
                      IF \E r \in document_revisions :
                            r.id = old.id /\ r.version = old.version
                      THEN document_revisions
                      ELSE document_revisions \cup
                              {[id |-> old.id, version |-> old.version,
                                title |-> old.title, body |-> old.body,
                                edited_by |-> <<"system">>,
                                edited_at |-> IsoFormat(now)]}
                /\ documents' = (documents \ {old}) \cup {updated}
                /\ records_ret' = [update_document |-> updated]
                /\ updates_done' = Append(updates_done, doc_id)
    /\ UNCHANGED <<db, db_lock, locals, last, tally_locals, now,
                   permit_tracker, documents_fts>>

\* lines 245-255
get_document(doc_id, public_only) ==
    /\ LET rows == {r \in DocumentRows(doc_id) : public_only => r.is_public}
       IN  records_ret' =
              [get_document |-> IF rows = {} THEN NoDict
                                ELSE CHOOSE r \in rows : TRUE,
               public_only |-> public_only]
    /\ UNCHANGED <<db, db_lock, locals, last, tally_locals, now,
                   permit_tracker, documents, documents_fts,
                   document_revisions, updates_done>>

\* the rows of a set of documents, in the order of their insertion
DocsInOrder(rows) ==
    LET upto[i \in 0..Len(DocIdPool)] ==
           IF i = 0 THEN <<>>
           ELSE IF \E r \in rows : r.id = DocIdPool[i]
                THEN Append(upto[i - 1],
                            CHOOSE r \in rows : r.id = DocIdPool[i])
                ELSE upto[i - 1]
    IN  upto[Len(DocIdPool)]

WordsOf(text) == {text[i] : i \in 1..Len(text)}

\* lines 268-273: the ids whose indexed title, body or tags hold the word
FtsMatch(query) ==
    {r.id : r \in {x \in documents_fts :
                      query \in WordsOf(x.title) \cup WordsOf(x.body)
                                  \cup WordsOf(x.tags)}}

\* lines 274-281: title LIKE ? OR body LIKE ? OR tags LIKE ?, on the rows
LikeMatch(query) ==
    {r.id : r \in {x \in documents :
                      query \in WordsOf(x.title) \cup WordsOf(x.body)
                                  \cup WordsOf(x.tags)}}

\* mutant: the rows matched are returned whatever their is_public
search_unfiltered(query, category, public_only) ==
    /\ LET matched_ids == IF query = BadQuery THEN LikeMatch(query)
                          ELSE FtsMatch(query)
           rows == {r \in documents :
                       /\ r.id \in matched_ids
                       /\ category # NoCategory => r.category = category}
       IN  records_ret' = [search |-> DocsInOrder(rows),
                           public_only |-> public_only]
    /\ UNCHANGED <<db, db_lock, locals, last, tally_locals, now,
                   permit_tracker, documents, documents_fts,
                   document_revisions, updates_done>>

\* lines 258-298; the order of the matches (by rank) is not modelled, the
\* rows come in the order of their insertion
search(query, category, public_only) ==
    /\ LET matched_ids == IF query = BadQuery THEN LikeMatch(query)
                          ELSE FtsMatch(query)
           rows == {r \in documents :
                       /\ r.id \in matched_ids
                       /\ public_only => r.is_public
                       /\ category # NoCategory => r.category = category}
       IN  records_ret' = [search |-> DocsInOrder(rows),
                           public_only |-> public_only]
    /\ UNCHANGED <<db, db_lock, locals, last, tally_locals, now,
                   permit_tracker, documents, documents_fts,
                   document_revisions, updates_done>>

\* lines 301-319: ORDER BY created_at DESC; rows with the same created_at
\* come in the order of their insertion
list_documents(category, public_only) ==
    /\ LET rows == {r \in documents :
                       /\ category # NoCategory => r.category = category
                       /\ public_only => r.is_public}
           Before(x, y) ==
               \/ StrLess(y.created_at, x.created_at)
               \/ /\ y.created_at = x.created_at
                  /\ \E i, j \in 1..Len(DocIdPool) :
                        i < j /\ DocIdPool[i] = x.id /\ DocIdPool[j] = y.id
           Rank(x) == Cardinality({y \in rows : Before(y, x)}) + 1
       IN  records_ret' =
              [list_documents |->
                  [k \in 1..Cardinality(rows) |->
                      CHOOSE x \in rows : Rank(x) = k],
               public_only |-> public_only]
    /\ UNCHANGED <<db, db_lock, locals, last, tally_locals, now,
                   permit_tracker, documents, documents_fts,
                   document_revisions, updates_done>>

\* Writes only, at one instant: the history of versions.
NextRevisions ==
    \/ \E t \in Titles, c \in {"notice", "memo"} :
          /\ c \in VALID_CATEGORIES => Cardinality(documents) < MaxDocs
          /\ create_document(t, c, <<"text">>, FALSE)
    \/ \E d \in DocIds : publish(d)
    \/ \E d \in DocIds : retract(d)
    \/ \E d \in DocIds \cup {OtherDocId}, t \in Titles \cup {None},
          b \in {<<"new">>, None} :
          /\ \A r \in DocumentRows(d) : r.version < MaxVersion
          /\ update_document(d, t, b)

SpecRevisions == Init /\ [][NextRevisions]_vars

\* Writes and reads at one instant: what the reads return.
NextRecords ==
    \/ \E t \in Titles, c \in (VALID_CATEGORIES \cup {"memo"}), pub \in BOOLEAN :
          /\ c \in VALID_CATEGORIES => Cardinality(documents) < MaxDocs
          /\ create_document(t, c, <<"text">>, pub)
    \/ \E d \in DocIds \cup {OtherDocId} : publish(d)
    \/ \E d \in DocIds \cup {OtherDocId} : retract(d)
    \/ \E d \in DocIds, t \in Titles :
          /\ \A r \in DocumentRows(d) : r.version < 2
          /\ update_document(d, t, <<"new">>)
    \/ \E d \in DocIds \cup {OtherDocId}, pub \in BOOLEAN : get_document(d, pub)
    \/ \E q \in {"red", "blue", "new", BadQuery}, c \in VALID_CATEGORIES \cup {NoCategory},
          pub \in BOOLEAN : search(q, c, pub)
    \/ \E c \in VALID_CATEGORIES \cup {NoCategory}, pub \in BOOLEAN :
          list_documents(c, pub)

SpecRecords == Init /\ [][NextRecords]_vars

\* the status of the permit with this id, or "unknown" if there is none
PermitStatus(permit_id) ==
    IF PermitRows(permit_id) = {} THEN "unknown"
    ELSE (CHOOSE r \in PermitRows(permit_id) : TRUE).status

\* the tick an ISO string of the permit tracker stands for
PermitTickOf(str) == CHOOSE t \in 0..(MaxTime + Day) : str = IsoFormat(t)

\* C35: approve and deny succeed only on a permit whose status is pending:
\* called on a permit that is approved, denied or expired, or on an unknown
\* id, they raise an error and leave the permit rows and the event log
\* unchanged; called on a pending permit they go on, write the permit while
\* it is pending, and make it approved or denied.
C35_ApproveDenyOnlyPending ==
    [][\A p \in Procs :
          LET id == permit_arg[p].permit_id
          IN  /\ (permit_pc[p] \in {"approve", "deny"}
                    /\ permit_pc'[p] # permit_pc[p]) =>
                     IF PermitStatus(id) = "pending"
                     THEN permit_pc'[p] \in {"approve_update", "deny_update"}
                     ELSE /\ permit_pc'[p] = "done"
                          /\ "error" \in DOMAIN permit_ret'[p]
                          /\ UNCHANGED <<permits, permit_events>>
              /\ (permit_pc[p] \in {"approve_update", "deny_update"}
                    /\ permit_pc'[p] # permit_pc[p]) =>
                     /\ PermitStatus(id) = "pending"
                     /\ PermitStatus(id)' =
                           IF permit_pc[p] = "approve_update" THEN "approved"
                           ELSE "denied"]_vars

\* The only permit is denied, and an approve call on it has raised.
C35_Witness ==
    /\ \E r \in permits : permits = {r} /\ r.status = "denied"
    /\ permit_pc[1] = "done"
    /\ permit_ret[1] = [error |-> "ValueError: Permit is not pending."]

\* C37: expire_overdue sets to expired exactly the permits that are approved
\* and whose expires_at is earlier than the time of the call, returns exactly
\* their ids, and leaves the status of every other permit as it was.
C37_ExpireOverdueExact ==
    [][\A p \in Procs :
          (permit_pc[p] = "expire_overdue_update" /\ permit_pc'[p] = "done") =>
             LET t == PermitTickOf(permit_arg[p].now)
                 due == {r \in permits :
                            /\ r.status = "approved"
                            /\ r.expires_at # None
                            /\ PermitTickOf(r.expires_at) < t}
                 ids == permit_ret'[p].expired_ids
             IN  /\ {ids[i] : i \in 1..Len(ids)} = {r.id : r \in due}
                 /\ Len(ids) = Cardinality(due)
                 /\ Cardinality(permits') = Cardinality(permits)
                 /\ \A r \in permits :
                       \E r2 \in permits' :
                          /\ r2.id = r.id
                          /\ r2.status = IF r \in due THEN "expired"
                                         ELSE r.status]_vars

\* A sweep has expired one permit and left one that is approved and not due.
C37_Witness ==
    /\ permit_pc[1] = "done"
    /\ "expired_ids" \in DOMAIN permit_ret[1]
    /\ Len(permit_ret[1].expired_ids) = 1
    /\ \E r, r2 \in permits :
          /\ r.status = "expired"
          /\ r2.status = "approved"
          /\ PermitTickOf(r2.expires_at) >= now

\* C36: whatever apply, approve, deny, expire_permit and expire_overdue calls
\* are made, and however concurrent calls on the same permit interleave, a
\* permit whose status is denied or expired does not get the status approved
\* or pending afterwards.
C36_DeniedExpiredAreFinal ==
    [][\A r \in permits :
          r.status \in {"denied", "expired"} =>
             \A r2 \in permits' :
                r2.id = r.id => r2.status \notin {"approved", "pending"}]_vars
\* --------------------------------------------------------------- C38
\* the revisions archived of the document with this id
RevisionsOf(doc_id) == {r \in document_revisions : r.id = doc_id}
\* the number of successful update_document calls on this id
UpdatesOf(doc_id) ==
    Cardinality({i \in 1..Len(updates_done) : updates_done[i] = doc_id})

\* the version of every document is 1 plus the number of its successful
\* updates, and its revisions are one row for each version below its own
C38_VersionCountsUpdates ==
    \A d \in documents :
        /\ d.version = 1 + UpdatesOf(d.id)
        /\ {r.version : r \in RevisionsOf(d.id)} = 1..(d.version - 1)
        /\ Cardinality(RevisionsOf(d.id)) = d.version - 1

\* a successful update_document raises the version of its document by one
\* and archives the title and body the document had, under the version it had
C38_UpdateArchivesOld ==
    updates_done' # updates_done =>
        LET doc_id == updates_done'[Len(updates_done')]
            old == CHOOSE r \in documents : r.id = doc_id
        IN  /\ \E r \in documents' : r.id = doc_id
            /\ \A r \in documents' :
                  r.id = doc_id => r.version = old.version + 1
            /\ \E r \in document_revisions' :
                  /\ r.id = doc_id
                  /\ r.version = old.version
                  /\ r.title = old.title
                  /\ r.body = old.body

\* C38: each successful update_document increases the document's version
\* by exactly 1 and archives the pre-update title and body as a revision
\* under the old version number; so after any sequence of operations the
\* version of a document is 1 plus the number of its successful updates, and
\* document_revisions holds exactly one row for each version from 1 to
\* version-1.
C38_VersionsAndRevisions ==
    [] C38_VersionCountsUpdates /\ [][C38_UpdateArchivesOld]_vars

\* a document updated twice, its title and its body changed on the way
C38_Witness ==
    \E d \in documents :
        /\ d.version = 3
        /\ \E r1, r2 \in RevisionsOf(d.id) :
              /\ r1.version = 1 /\ r2.version = 2
              /\ r1.title # r2.title /\ r2.title # d.title
              /\ r1.body # r2.body

\* --------------------------------------------------------------- C39
\* the documents that the last read returned
Returned ==
    IF "get_document" \in DOMAIN records_ret
    THEN IF records_ret.get_document = NoDict THEN {}
         ELSE {records_ret.get_document}
    ELSE IF "search" \in DOMAIN records_ret
    THEN {records_ret.search[i] : i \in 1..Len(records_ret.search)}
    ELSE IF "list_documents" \in DOMAIN records_ret
    THEN {records_ret.list_documents[i] :
             i \in 1..Len(records_ret.list_documents)}
    ELSE {}

\* C39: get_document, search and list_documents called with public_only
\* true never return a document whose is_public flag is false at the time
\* of the call: a document never published, or published and then
\* retracted, is not returned.
C39_PublicOnlyReturnsPublic ==
    [][("public_only" \in DOMAIN records_ret' /\ records_ret'.public_only)
          => \A r \in Returned' :
                /\ r.is_public
                /\ \E d \in documents : d.id = r.id /\ d.is_public]_vars

\* a public_only search has returned one of two documents that match it
\* and left out the other one, which is not public
C39_Witness ==
    /\ "search" \in DOMAIN records_ret
    /\ records_ret.public_only
    /\ Len(records_ret.search) = 1
    /\ \E d \in documents :
          /\ ~d.is_public
          /\ d.id \in FtsMatch("red")
          /\ records_ret.search[1].id \in FtsMatch("red")
          /\ d.id # records_ret.search[1].id

====
